---- MODULE Spec2Model ----
(***************************************************************************)
(* Model of stack_ip::StackParser (src/src/stack_ip/parsers/StackParser.h) *)
(* over a read-only byte buffer.  The parser is a state machine over the   *)
(* protocol tag `proto' and the packet reader's cursor.  The packet reader *)
(* (DefaultPacketReader) and the six protocol modules (Ethernet, Vlan,     *)
(* IPv4, Gre, Udp, Sctp) are included by StackParser.h from other headers; *)
(* they are modelled from sections 3, 4.1 and 4.2 of the specification and *)
(* from the public wire formats.                                           *)
(* The second part models intrusive::List (src/src/intrusive/List.h) as    *)
(* operators on a heap of nodes and List objects.                          *)
(***************************************************************************)
EXTENDS Integers, Sequences, FiniteSets, TLC

VARIABLES
    buf,        \* the backing buffer: a sequence of bytes, never written
    position,   \* cursor: byte offset of the current layer's start
    remaining,  \* cursor: bytes from position to the buffer end
    proto,      \* StackParser::proto, the current protocol tag
    ret,        \* the last public call: its name, argument and result
    pastEnd,    \* history: some call peeked at a byte past the buffer end
    walk,       \* history: the last parse() (position, protocol), next() calls since
    inst,       \* two parsers over buf: each one's proto, cursor and last call
    alone,      \* history: each of the two as its calls alone leave it
    caller,     \* history: the parser of the two that was called last
    heap,       \* intrusive::List objects and the nodes they link
    lret,       \* the last call on a List: its name, arguments and result
    hmap,       \* an intrusive::HashMap and the nodes it links
    hret,       \* the last call on the HashMap: its name, arguments and result
    imap,       \* an IntrusiveMap and the nodes it links
    iret        \* the last call on the IntrusiveMap: its name, arguments and result

\* The variables the member functions of the one parser never touch.
otherVars == <<walk, inst, alone, caller, heap, lret, hmap, hret, imap, iret>>

\* The variables of the packet parsers.
parserVars ==
    <<buf, position, remaining, proto, ret, pastEnd, walk, inst, alone, caller>>

\* The variables of the maps.
mapVars == <<hmap, hret, imap, iret>>

vars == <<buf, position, remaining, proto, ret, pastEnd, walk, inst, alone,
          caller, heap, lret, hmap, hret, imap, iret>>

(***************************************************************************)
(* Bounds of the model.                                                    *)
(***************************************************************************)
MaxPayload == 1     \* innermost payload bytes: 0..MaxPayload
MaxPad     == 1     \* trailing link-layer padding bytes: 0 or MaxPad
MaxTunnel  == 1     \* GRE-in-IPv4 encapsulations nested in a stack
MaxAdvance == 8     \* lengths passed to the cursor's own operations
MaxNest    == 2     \* tunnels, or VLAN tags, nested in a frame that is walked

(***************************************************************************)
(* enum Protocol (stack_ip.h), as used by StackParser.h.  INVALID stands   *)
(* for an integer outside the enumeration cast to Protocol.                *)
(***************************************************************************)
L2_ETHERNET == "L2_ETHERNET"
L2_VLAN     == "L2_VLAN"
L3_IPv4     == "L3_IPv4"
L4_GRE      == "L4_GRE"
L4_UDP      == "L4_UDP"
L4_SCTP     == "L4_SCTP"
END         == "END"
INVALID     == "INVALID"

Protocols == {L2_ETHERNET, L2_VLAN, L3_IPv4, L4_GRE, L4_UDP, L4_SCTP}
ProtocolArgs == Protocols \cup {END, INVALID}

(***************************************************************************)
(* Wire constants of the six protocols.                                    *)
(***************************************************************************)
ETH_HLEN       == 14
VLAN_HLEN      == 4
IPV4_HLEN_MIN  == 20
GRE_HLEN_MIN   == 4
UDP_HLEN       == 8
SCTP_HLEN      == 12
ETHERTYPE_IPV4 == 2048
ETHERTYPE_VLAN == 33024
ETHERTYPE_IPV6 == 34525
IPPROTO_TCP    == 6
IPPROTO_UDP    == 17
IPPROTO_GRE    == 47
IPPROTO_SCTP   == 132
GRE_FLAG_C     == 128
GRE_FLAG_K     == 32
GRE_FLAG_S     == 16

Max(a, b) == IF a >= b THEN a ELSE b
Hi(v) == (v \div 256) % 256
Lo(v) == v % 256
Zeros(n) == [i \in 1..n |-> 0]
\* A value of C++ type unsigned.  A negative difference wraps around to a
\* value near the top of the range; TLC's integers end at 2^31 - 1,
\* so the wrapped value is taken modulo 2^31 (no length here reaches 2^16).
Unsigned(x) == IF x >= 0 THEN x ELSE (x + 1) + 2147483647

(***************************************************************************)
(* The buffers the parser is run over.  A buffer is the wire encoding of a *)
(* stack of layers `shape' around P payload bytes, followed by `pad'       *)
(* padding bytes, with one field of layer `at' set as `kind' says, and cut *)
(* to its first `keep' bytes.                                              *)
(***************************************************************************)
Kinds == {"ok", "lenPlus", "lenShort", "badVer", "badIhl", "unkNext", "opts"}

RECURSIVE Tunnels(_)
Tunnels(k) == IF k = 0 THEN <<>> ELSE <<L4_GRE, L3_IPv4>> \o Tunnels(k - 1)

Shapes ==
    {<<L2_ETHERNET, L3_IPv4, L4_UDP>>,
     <<L2_ETHERNET, L2_VLAN, L3_IPv4, L4_UDP>>,
     <<L2_ETHERNET, L3_IPv4, L4_SCTP>>}
    \cup {<<L2_ETHERNET, L3_IPv4>> \o Tunnels(k) \o <<L4_UDP>> : k \in 1..MaxTunnel}

\* The ethertype announcing protocol p.
EtherTypeOf(p) ==
    CASE p = L3_IPv4 -> ETHERTYPE_IPV4
      [] p = L2_VLAN -> ETHERTYPE_VLAN
      [] OTHER       -> ETHERTYPE_IPV6

\* The IPv4 protocol number announcing protocol p.
IpProtoOf(p) ==
    CASE p = L4_UDP  -> IPPROTO_UDP
      [] p = L4_GRE  -> IPPROTO_GRE
      [] p = L4_SCTP -> IPPROTO_SCTP
      [] OTHER       -> IPPROTO_TCP

EthernetBytes(type) == Zeros(12) \o <<Hi(type), Lo(type)>>

VlanBytes(type) == <<0, 1, Hi(type), Lo(type)>>

IPv4Bytes(ver, ihl, total, num) ==
    <<ver * 16 + ihl, 0, Hi(total), Lo(total), 0, 0, 0, 0, 64, num, 0, 0,
      10, 0, 0, 1, 10, 0, 0, 2>> \o Zeros(IF ihl > 5 THEN (ihl - 5) * 4 ELSE 0)

GreBytes(flags, type) ==
    <<flags, 0, Hi(type), Lo(type)>> \o Zeros(IF flags = GRE_FLAG_K THEN 4 ELSE 0)

UdpBytes(len) == <<0, 53, 0, 53, Hi(len), Lo(len), 0, 0>>

SctpBytes == <<0, 7, 0, 7>> \o Zeros(8)

\* The header of a layer of protocol p that announces protocol nxt and
\* carries n bytes, with the field that `kind' names set wrongly.
LayerBytes(p, nxt, n, kind) ==
    LET enxt == IF kind = "unkNext" THEN END ELSE nxt IN
    CASE p = L2_ETHERNET -> EthernetBytes(EtherTypeOf(enxt))
      [] p = L2_VLAN     -> VlanBytes(EtherTypeOf(enxt))
      [] p = L3_IPv4     ->
            LET ihl == CASE kind = "badIhl" -> 4
                         [] kind = "opts"   -> 6
                         [] OTHER           -> 5
                total == CASE kind = "lenPlus"  -> ihl * 4 + n + 1
                           [] kind = "lenShort" -> ihl * 4 - 1
                           [] OTHER             -> ihl * 4 + n
            IN  IPv4Bytes(IF kind = "badVer" THEN 6 ELSE 4, ihl, total,
                          IpProtoOf(enxt))
      [] p = L4_GRE      ->
            GreBytes(IF kind = "opts" THEN GRE_FLAG_K ELSE 0, EtherTypeOf(enxt))
      [] p = L4_UDP      ->
            UdpBytes(CASE kind = "lenPlus"  -> UDP_HLEN + n + 1
                       [] kind = "lenShort" -> UDP_HLEN - 1
                       [] OTHER             -> UDP_HLEN + n)
      [] OTHER           -> SctpBytes

\* Layers i.. of the stack and the payload.  A payload byte is 69 (0x45),
\* the first byte of a plain IPv4 header.
RECURSIVE Encode(_, _, _, _, _)
Encode(shape, i, P, at, kind) ==
    IF i > Len(shape) THEN [j \in 1..P |-> 69]
    ELSE LET inner == Encode(shape, i + 1, P, at, kind)
             nxt   == IF i < Len(shape) THEN shape[i + 1] ELSE END
         IN  LayerBytes(shape[i], nxt, Len(inner),
                        IF at = i THEN kind ELSE "ok") \o inner

Frame(shape, P, pad, at, kind) == Encode(shape, 1, P, at, kind) \o Zeros(pad)

Truncate(s, keep) == SubSeq(s, 1, keep)

\* Well-formed frames of every shape and payload, unpadded and padded.
SoundFrames ==
    {Frame(shape, P, pad, 0, "ok") :
        shape \in Shapes, P \in 0..MaxPayload, pad \in {0, MaxPad}}

\* Frames with one field of one layer set wrongly.
FaultyFrames ==
    {Frame(shape, MaxPayload, pad, sk[1], sk[2]) :
        shape \in Shapes, pad \in {0, MaxPad},
        sk \in (1..(3 + 2 * MaxTunnel)) \X (Kinds \ {"ok"})}

\* The well-formed Ethernet/IPv4/UDP frame cut to each shorter length.
CutFrames ==
    LET whole == Frame(<<L2_ETHERNET, L3_IPv4, L4_UDP>>, MaxPayload, 0, 0, "ok")
    IN  {Truncate(whole, keep) : keep \in 0..(Len(whole) - 1)}

Buffers == SoundFrames \cup FaultyFrames \cup CutFrames

(***************************************************************************)
(* Packet Cursor (specification 3 and 4.1).  A cursor value is a record    *)
(* [pos, rem]; the state holds the parser's own cursor in `position' and   *)
(* `remaining'.                                                            *)
(***************************************************************************)
Cursor == [pos |-> position, rem |-> remaining]

remaining_len(cur) == cur.rem

\* peek(offset_from_position, length) -> view | OutOfBounds.  `hi' is one
\* past the last buffer offset of the view, 0 when nothing is viewed.
peek(cur, off, len) ==
    IF off + len <= cur.rem
    THEN [ok |-> TRUE, hi |-> cur.pos + off + len]
    ELSE [ok |-> FALSE, hi |-> 0]

\* advance that also refuses to consume all that remains.
advance_off_by_one(cur, len) ==
    IF len >= cur.rem
    THEN [ok |-> FALSE, cur |-> cur]
    ELSE [ok |-> TRUE, cur |-> [pos |-> cur.pos + len, rem |-> cur.rem - len]]

\* advance(length) -> Ok | OutOfBounds.
advance(cur, len) ==
    IF len > cur.rem
    THEN [ok |-> FALSE, cur |-> cur]
    ELSE [ok |-> TRUE, cur |-> [pos |-> cur.pos + len, rem |-> cur.rem - len]]

\* The byte at offset off of a view taken at the cursor.  Memory past the
\* buffer is not modelled: a read of it gives 0 and shows in pastEnd.
U8At(cur, off) ==
    IF cur.pos + off + 1 \in DOMAIN buf THEN buf[cur.pos + off + 1] ELSE 0

\* The big-endian 16-bit field at offset off.
U16At(cur, off) == U8At(cur, off) * 256 + U8At(cur, off + 1)

(***************************************************************************)
(* Protocol Layer Modules (specification 4.2): validate, header length,    *)
(* payload length and next protocol of each of the six protocols, at a     *)
(* cursor that points at the layer's header.                               *)
(***************************************************************************)
\* An ethertype as a Protocol.
EtherTypeProtocol(type) ==
    CASE type = ETHERTYPE_IPV4 -> L3_IPv4
      [] type = ETHERTYPE_VLAN -> L2_VLAN
      [] OTHER                 -> END

EthernetValidatePacket(cur) ==
    LET h == peek(cur, 0, ETH_HLEN) IN [ok |-> h.ok, hi |-> h.hi]

EthernetLengthHeader(cur) == [len |-> ETH_HLEN, hi |-> 0]

EthernetLengthPayload(cur) == [len |-> Unsigned(remaining_len(cur) - ETH_HLEN), hi |-> 0]

EthernetNextProtocol(cur) ==
    LET h == peek(cur, 0, ETH_HLEN) IN
    [proto |-> IF h.ok THEN EtherTypeProtocol(U16At(cur, 12)) ELSE END,
     hi |-> h.hi]

VlanValidatePacket(cur) ==
    LET h == peek(cur, 0, VLAN_HLEN) IN [ok |-> h.ok, hi |-> h.hi]

VlanLengthHeader(cur) == [len |-> VLAN_HLEN, hi |-> 0]

VlanLengthPayload(cur) == [len |-> Unsigned(remaining_len(cur) - VLAN_HLEN), hi |-> 0]

VlanNextProtocol(cur) ==
    LET h == peek(cur, 0, VLAN_HLEN) IN
    [proto |-> IF h.ok THEN EtherTypeProtocol(U16At(cur, 2)) ELSE END,
     hi |-> h.hi]

IPv4Version(cur) == U8At(cur, 0) \div 16
IPv4Ihl(cur) == U8At(cur, 0) % 16
IPv4TotalLength(cur) == U16At(cur, 2)

IPv4ValidatePacket(cur) ==
    LET h == peek(cur, 0, IPV4_HLEN_MIN) IN
    [ok |-> /\ h.ok
            /\ IPv4Version(cur) = 4
            /\ IPv4Ihl(cur) * 4 >= IPV4_HLEN_MIN
            /\ IPv4Ihl(cur) * 4 <= IPv4TotalLength(cur)
            /\ IPv4TotalLength(cur) <= remaining_len(cur),
     hi |-> h.hi]

IPv4LengthHeader(cur) ==
    LET h == peek(cur, 0, IPV4_HLEN_MIN) IN
    [len |-> IF h.ok THEN IPv4Ihl(cur) * 4 ELSE 0, hi |-> h.hi]

IPv4LengthPayload(cur) ==
    LET h == peek(cur, 0, IPV4_HLEN_MIN) IN
    [len |-> IF h.ok THEN Unsigned(IPv4TotalLength(cur) - IPv4Ihl(cur) * 4)
             ELSE 0,
     hi |-> h.hi]

IPv4NextProtocol(cur) ==
    LET h == peek(cur, 0, IPV4_HLEN_MIN)
        num == U8At(cur, 9)
    IN  [proto |-> IF ~h.ok THEN END
                   ELSE CASE num = IPPROTO_UDP  -> L4_UDP
                          [] num = IPPROTO_GRE  -> L4_GRE
                          [] num = IPPROTO_SCTP -> L4_SCTP
                          [] OTHER              -> END,
         hi |-> h.hi]

\* The GRE header: 4 fixed bytes and 4 more for each of checksum, key and
\* sequence number that the flags announce.
GreHeaderBytes(cur) ==
    LET f == U8At(cur, 0) IN
    GRE_HLEN_MIN + 4 * ((f \div GRE_FLAG_C) % 2) + 4 * ((f \div GRE_FLAG_K) % 2)
                 + 4 * ((f \div GRE_FLAG_S) % 2)

GreValidatePacket(cur) ==
    LET h == peek(cur, 0, GRE_HLEN_MIN) IN
    [ok |-> /\ h.ok
            /\ U8At(cur, 1) % 8 = 0
            /\ GreHeaderBytes(cur) <= remaining_len(cur),
     hi |-> h.hi]

GreLengthHeader(cur) ==
    LET h == peek(cur, 0, GRE_HLEN_MIN) IN
    [len |-> IF h.ok THEN GreHeaderBytes(cur) ELSE 0, hi |-> h.hi]

GreLengthPayload(cur) ==
    LET h == peek(cur, 0, GRE_HLEN_MIN) IN
    [len |-> IF h.ok THEN Unsigned(remaining_len(cur) - GreHeaderBytes(cur))
             ELSE 0,
     hi |-> h.hi]

GreNextProtocol(cur) ==
    LET h == peek(cur, 0, GRE_HLEN_MIN) IN
    [proto |-> IF h.ok /\ U16At(cur, 2) = ETHERTYPE_IPV4 THEN L3_IPv4 ELSE END,
     hi |-> h.hi]

UdpLength(cur) == U16At(cur, 4)

UdpValidatePacket(cur) ==
    LET h == peek(cur, 0, UDP_HLEN) IN
    [ok |-> /\ h.ok
            /\ UdpLength(cur) >= UDP_HLEN
            /\ UdpLength(cur) <= remaining_len(cur),
     hi |-> h.hi]

UdpLengthHeader(cur) == [len |-> UDP_HLEN, hi |-> 0]

UdpLengthPayload(cur) ==
    LET h == peek(cur, 0, UDP_HLEN) IN
    [len |-> IF h.ok THEN Unsigned(UdpLength(cur) - UDP_HLEN) ELSE 0,
     hi |-> h.hi]

UdpNextProtocol(cur) == [proto |-> END, hi |-> 0]

SctpValidatePacket(cur) ==
    LET h == peek(cur, 0, SCTP_HLEN) IN [ok |-> h.ok, hi |-> h.hi]

SctpLengthHeader(cur) == [len |-> SCTP_HLEN, hi |-> 0]

SctpLengthPayload(cur) == [len |-> Unsigned(remaining_len(cur) - SCTP_HLEN), hi |-> 0]

SctpNextProtocol(cur) == [proto |-> END, hi |-> 0]

\* X::next(reader): the protocol the header announces, with the reader
\* moved past the header (specification 4.3, next(), steps 1 and 2).
StepOver(np, hl, cur) ==
    LET a == advance(cur, hl.len) IN
    [proto |-> IF a.ok THEN np.proto ELSE END, cur |-> a.cur,
     hi |-> Max(np.hi, hl.hi)]

EthernetNext(cur) ==
    StepOver(EthernetNextProtocol(cur), EthernetLengthHeader(cur), cur)
VlanNext(cur) == StepOver(VlanNextProtocol(cur), VlanLengthHeader(cur), cur)
IPv4Next(cur) == StepOver(IPv4NextProtocol(cur), IPv4LengthHeader(cur), cur)
GreNext(cur) == StepOver(GreNextProtocol(cur), GreLengthHeader(cur), cur)
UdpNext(cur) == StepOver(UdpNextProtocol(cur), UdpLengthHeader(cur), cur)
SctpNext(cur) == StepOver(SctpNextProtocol(cur), SctpLengthHeader(cur), cur)

\* DefaultPacketReader::available_area(): the bytes from the cursor on.
available_area(cur) == [ptr |-> cur.pos, len |-> remaining_len(cur)]

\* DefaultPacketReader::assign_stay(ptr): ptr is set to the cursor when
\* a value of `size' bytes fits there; the cursor stays.
NullPtr == -1
assign_stay(cur, size) ==
    LET h == peek(cur, 0, size) IN
    [ok |-> h.ok, ptr |-> IF h.ok THEN cur.pos ELSE NullPtr, hi |-> h.hi]

(***************************************************************************)
(* StackParser.  A parser value st is [proto, cur]; every member function  *)
(* gives the parser value after the call, what the call returns, and the   *)
(* extent `hi' of what it peeked.                                          *)
(***************************************************************************)
Self == [proto |-> proto, cur |-> Cursor]

\* StackParser::StackParser(pkt)
StackParser(pkt) == [proto |-> END, cur |-> [pos |-> 0, rem |-> Len(pkt)]]

\* validate_packet with the L3_IPv4 case left out of the switch.
validate_packet_no_ipv4(st, new_proto) ==
    LET r == CASE new_proto = L2_ETHERNET -> EthernetValidatePacket(st.cur)
               [] new_proto = L2_VLAN     -> VlanValidatePacket(st.cur)
               [] new_proto = L4_GRE      -> GreValidatePacket(st.cur)
               [] new_proto = L4_UDP      -> UdpValidatePacket(st.cur)
               [] new_proto = L4_SCTP     -> SctpValidatePacket(st.cur)
               [] OTHER                   -> [ok |-> FALSE, hi |-> 0]
    IN  [proto |-> IF ~r.ok THEN END ELSE new_proto, hi |-> r.hi]

\* validate_packet whose L3_IPv4 case calls Ethernet::validate_packet.
validate_packet_ipv4_as_ethernet(st, new_proto) ==
    LET r == CASE new_proto = L2_ETHERNET -> EthernetValidatePacket(st.cur)
               [] new_proto = L2_VLAN     -> VlanValidatePacket(st.cur)
               [] new_proto = L3_IPv4     -> EthernetValidatePacket(st.cur)
               [] new_proto = L4_GRE      -> GreValidatePacket(st.cur)
               [] new_proto = L4_UDP      -> UdpValidatePacket(st.cur)
               [] new_proto = L4_SCTP     -> SctpValidatePacket(st.cur)
               [] OTHER                   -> [ok |-> FALSE, hi |-> 0]
    IN  [proto |-> IF ~r.ok THEN END ELSE new_proto, hi |-> r.hi]

\* validate_packet that does not turn a failed validation into END.
validate_packet_keep(st, new_proto) ==
    LET r == CASE new_proto = L2_ETHERNET -> EthernetValidatePacket(st.cur)
               [] new_proto = L2_VLAN     -> VlanValidatePacket(st.cur)
               [] new_proto = L3_IPv4     -> IPv4ValidatePacket(st.cur)
               [] new_proto = L4_GRE      -> GreValidatePacket(st.cur)
               [] new_proto = L4_UDP      -> UdpValidatePacket(st.cur)
               [] new_proto = L4_SCTP     -> SctpValidatePacket(st.cur)
               [] OTHER                   -> [ok |-> FALSE, hi |-> 0]
    IN  [proto |-> IF new_proto \in Protocols THEN new_proto ELSE END,
         hi |-> r.hi]

\* StackParser::validate_packet(new_proto)
validate_packet(st, new_proto) ==
    LET r == CASE new_proto = L2_ETHERNET -> EthernetValidatePacket(st.cur)
               [] new_proto = L2_VLAN     -> VlanValidatePacket(st.cur)
               [] new_proto = L3_IPv4     -> IPv4ValidatePacket(st.cur)
               [] new_proto = L4_GRE      -> GreValidatePacket(st.cur)
               [] new_proto = L4_UDP      -> UdpValidatePacket(st.cur)
               [] new_proto = L4_SCTP     -> SctpValidatePacket(st.cur)
               [] OTHER                   -> [ok |-> FALSE, hi |-> 0]
    IN  [proto |-> IF ~r.ok THEN END ELSE new_proto, hi |-> r.hi]

\* parse that takes proto_first as the current protocol without validating.
parse_unchecked(st, proto_first) ==
    LET p == IF proto_first \in Protocols THEN proto_first ELSE END IN
    [st |-> [st EXCEPT !.proto = p], ok |-> p # END, hi |-> 0]

\* parse that leaves the current protocol as it is when validation fails.
parse_keep_on_failure(st, proto_first) ==
    LET v == validate_packet(st, proto_first)
        p == IF v.proto # END THEN v.proto ELSE st.proto
    IN  [st |-> [st EXCEPT !.proto = p], ok |-> p # END, hi |-> v.hi]

\* parse that starts over at the head of the buffer.
\* parse validating at the start of the buffer, the cursor left alone.
parse_at_start(st, proto_first) ==
    LET st0 == [st EXCEPT !.cur = [pos |-> 0, rem |-> st.cur.pos + st.cur.rem]]
        v   == validate_packet(st0, proto_first)
    IN  [st |-> [st EXCEPT !.proto = v.proto], ok |-> v.proto # END,
         hi |-> v.hi]

parse_rewind(st, proto_first) ==
    LET st0 == [st EXCEPT !.cur = [pos |-> 0, rem |-> st.cur.pos + st.cur.rem]]
        v   == validate_packet(st0, proto_first)
    IN  [st |-> [st0 EXCEPT !.proto = v.proto], ok |-> v.proto # END,
         hi |-> v.hi]

\* parse that consumes the header it has validated.
parse_consume(st, proto_first) ==
    LET v  == validate_packet(st, proto_first)
        hl == IF v.proto = L2_ETHERNET THEN EthernetLengthHeader(st.cur).len
              ELSE 0
    IN  [st |-> [proto |-> v.proto,
                 cur   |-> [pos |-> st.cur.pos + hl, rem |-> st.cur.rem - hl]],
         ok |-> v.proto # END, hi |-> v.hi]

\* StackParser::parse(proto_first)
parse(st, proto_first) ==
    LET v == validate_packet(st, proto_first) IN
    [st |-> [st EXCEPT !.proto = v.proto], ok |-> v.proto # END, hi |-> v.hi]

\* StackParser::protocol()
protocol(st) == st.proto

\* next whose next_proto starts as L2_ETHERNET, parse's default, not as END.
next_default_ethernet(st) ==
    LET n == CASE st.proto = L2_ETHERNET -> EthernetNext(st.cur)
               [] st.proto = L2_VLAN     -> VlanNext(st.cur)
               [] st.proto = L3_IPv4     -> IPv4Next(st.cur)
               [] st.proto = L4_GRE      -> GreNext(st.cur)
               [] st.proto = L4_UDP      -> UdpNext(st.cur)
               [] st.proto = L4_SCTP     -> SctpNext(st.cur)
               [] OTHER -> [proto |-> L2_ETHERNET, cur |-> st.cur, hi |-> 0]
        v == validate_packet([st EXCEPT !.cur = n.cur], n.proto)
    IN  [st |-> [proto |-> v.proto, cur |-> n.cur], proto |-> v.proto,
         hi |-> Max(n.hi, v.hi)]

\* next that takes the announced protocol without validating it.
next_unvalidated(st) ==
    LET n == CASE st.proto = L2_ETHERNET -> EthernetNext(st.cur)
               [] st.proto = L2_VLAN     -> VlanNext(st.cur)
               [] st.proto = L3_IPv4     -> IPv4Next(st.cur)
               [] st.proto = L4_GRE      -> GreNext(st.cur)
               [] st.proto = L4_UDP      -> UdpNext(st.cur)
               [] st.proto = L4_SCTP     -> SctpNext(st.cur)
               [] OTHER -> [proto |-> END, cur |-> st.cur, hi |-> 0]
    IN  [st |-> [proto |-> n.proto, cur |-> n.cur], proto |-> n.proto,
         hi |-> n.hi]

\* next that keeps the current protocol when the header announces none.
next_keep_on_end(st) ==
    LET n == CASE st.proto = L2_ETHERNET -> EthernetNext(st.cur)
               [] st.proto = L2_VLAN     -> VlanNext(st.cur)
               [] st.proto = L3_IPv4     -> IPv4Next(st.cur)
               [] st.proto = L4_GRE      -> GreNext(st.cur)
               [] st.proto = L4_UDP      -> UdpNext(st.cur)
               [] st.proto = L4_SCTP     -> SctpNext(st.cur)
               [] OTHER -> [proto |-> END, cur |-> st.cur, hi |-> 0]
        v == IF n.proto = END THEN [proto |-> st.proto, hi |-> 0]
             ELSE validate_packet([st EXCEPT !.cur = n.cur], n.proto)
    IN  [st |-> [proto |-> v.proto, cur |-> n.cur], proto |-> v.proto,
         hi |-> Max(n.hi, v.hi)]

\* next whose GRE case takes the announced protocol without stepping over
\* the GRE header.
next_gre_no_advance(st) ==
    LET n == CASE st.proto = L2_ETHERNET -> EthernetNext(st.cur)
               [] st.proto = L2_VLAN     -> VlanNext(st.cur)
               [] st.proto = L3_IPv4     -> IPv4Next(st.cur)
               [] st.proto = L4_GRE      ->
                     [proto |-> GreNextProtocol(st.cur).proto, cur |-> st.cur,
                      hi |-> GreNextProtocol(st.cur).hi]
               [] st.proto = L4_UDP      -> UdpNext(st.cur)
               [] st.proto = L4_SCTP     -> SctpNext(st.cur)
               [] OTHER -> [proto |-> END, cur |-> st.cur, hi |-> 0]
        v == validate_packet([st EXCEPT !.cur = n.cur], n.proto)
    IN  [st |-> [proto |-> v.proto, cur |-> n.cur], proto |-> v.proto,
         hi |-> Max(n.hi, v.hi)]

\* StackParser::next()
next(st) ==
    LET n == CASE st.proto = L2_ETHERNET -> EthernetNext(st.cur)
               [] st.proto = L2_VLAN     -> VlanNext(st.cur)
               [] st.proto = L3_IPv4     -> IPv4Next(st.cur)
               [] st.proto = L4_GRE      -> GreNext(st.cur)
               [] st.proto = L4_UDP      -> UdpNext(st.cur)
               [] st.proto = L4_SCTP     -> SctpNext(st.cur)
               [] OTHER -> [proto |-> END, cur |-> st.cur, hi |-> 0]
        v == validate_packet([st EXCEPT !.cur = n.cur], n.proto)
    IN  [st |-> [proto |-> v.proto, cur |-> n.cur], proto |-> v.proto,
         hi |-> Max(n.hi, v.hi)]

\* StackParser::packet()
packet(st) == available_area(st.cur)

\* header(unsigned&) returning m_head from the default branch too.
header_len_head_on_end(st) ==
    LET r == CASE st.proto = L2_ETHERNET -> EthernetLengthHeader(st.cur)
               [] st.proto = L2_VLAN     -> VlanLengthHeader(st.cur)
               [] st.proto = L3_IPv4     -> IPv4LengthHeader(st.cur)
               [] st.proto = L4_GRE      -> GreLengthHeader(st.cur)
               [] st.proto = L4_UDP      -> UdpLengthHeader(st.cur)
               [] st.proto = L4_SCTP     -> SctpLengthHeader(st.cur)
               [] OTHER                  -> [len |-> 0, hi |-> 0]
    IN  [ptr |-> st.cur.pos, len |-> r.len, hi |-> r.hi]

\* StackParser::header(unsigned& out_hdr_len), called with out_hdr_len = 0
header_len(st) ==
    LET r == CASE st.proto = L2_ETHERNET -> EthernetLengthHeader(st.cur)
               [] st.proto = L2_VLAN     -> VlanLengthHeader(st.cur)
               [] st.proto = L3_IPv4     -> IPv4LengthHeader(st.cur)
               [] st.proto = L4_GRE      -> GreLengthHeader(st.cur)
               [] st.proto = L4_UDP      -> UdpLengthHeader(st.cur)
               [] st.proto = L4_SCTP     -> SctpLengthHeader(st.cur)
               [] OTHER                  -> [len |-> 0, hi |-> 0]
    IN  [ptr |-> IF st.proto \in Protocols THEN st.cur.pos ELSE NullPtr,
         len |-> r.len, hi |-> r.hi]

\* payload(unsigned&) returning nullptr for a payload of no bytes.
payload_len_null_when_empty(st) ==
    LET r == CASE st.proto = L2_ETHERNET -> EthernetLengthPayload(st.cur)
               [] st.proto = L2_VLAN     -> VlanLengthPayload(st.cur)
               [] st.proto = L3_IPv4     -> IPv4LengthPayload(st.cur)
               [] st.proto = L4_GRE      -> GreLengthPayload(st.cur)
               [] st.proto = L4_UDP      -> UdpLengthPayload(st.cur)
               [] st.proto = L4_SCTP     -> SctpLengthPayload(st.cur)
               [] OTHER                  -> [len |-> 0, hi |-> 0]
        h == header_len(st)
    IN  [ptr |-> IF st.proto \in Protocols /\ r.len > 0
                 THEN st.cur.pos + h.len ELSE NullPtr,
         len |-> r.len, hi |-> Max(r.hi, h.hi)]

\* payload(unsigned&) returning m_head itself, without the header length.
payload_len_at_head(st) ==
    LET r == CASE st.proto = L2_ETHERNET -> EthernetLengthPayload(st.cur)
               [] st.proto = L2_VLAN     -> VlanLengthPayload(st.cur)
               [] st.proto = L3_IPv4     -> IPv4LengthPayload(st.cur)
               [] st.proto = L4_GRE      -> GreLengthPayload(st.cur)
               [] st.proto = L4_UDP      -> UdpLengthPayload(st.cur)
               [] st.proto = L4_SCTP     -> SctpLengthPayload(st.cur)
               [] OTHER                  -> [len |-> 0, hi |-> 0]
    IN  [ptr |-> IF st.proto \in Protocols THEN st.cur.pos ELSE NullPtr,
         len |-> r.len, hi |-> r.hi]

\* StackParser::payload(unsigned& out_payload_len), called with
\* out_payload_len = 0
payload_len(st) ==
    LET r == CASE st.proto = L2_ETHERNET -> EthernetLengthPayload(st.cur)
               [] st.proto = L2_VLAN     -> VlanLengthPayload(st.cur)
               [] st.proto = L3_IPv4     -> IPv4LengthPayload(st.cur)
               [] st.proto = L4_GRE      -> GreLengthPayload(st.cur)
               [] st.proto = L4_UDP      -> UdpLengthPayload(st.cur)
               [] st.proto = L4_SCTP     -> SctpLengthPayload(st.cur)
               [] OTHER                  -> [len |-> 0, hi |-> 0]
        h == header_len(st)
    IN  [ptr |-> IF st.proto \in Protocols THEN st.cur.pos + h.len ELSE NullPtr,
         len |-> r.len, hi |-> Max(r.hi, h.hi)]

\* StackParser::header()
header(st) == header_len(st)

\* StackParser::payload()
payload(st) == payload_len(st)

(***************************************************************************)
(* The state machine: one action per public member function.               *)
(***************************************************************************)
\* The record of a call: its name and argument, the cursor position it
\* started at, for parse() whether it started from a protocol other than
\* END (live), and what it returned (a flag, a protocol or a view).
Call(op, arg, ok, p, ptr, len) ==
    [op |-> op, arg |-> arg, pos0 |-> position,
     live |-> (op = "parse" /\ proto # END),
     ok |-> ok, proto |-> p, ptr |-> ptr, len |-> len]

\* Whether a call that peeked up to offset hi peeked past the buffer end.
PastEnd(hi) == pastEnd \/ hi > Len(buf)

\* No List and no node is constructed, no List member function called.
NoHeap == <<>>
NoCall == <<>>

\* No traversal is being counted.
NoWalk == [start |-> 0, first |-> END, nexts |-> 0]

\* No second parser is constructed.
NoInstances == <<>>

\* No map is constructed.
NoMaps == hmap = NoHeap /\ hret = NoCall /\ imap = NoHeap /\ iret = NoCall

Init ==
    /\ buf \in Buffers
    /\ position = StackParser(buf).cur.pos
    /\ remaining = StackParser(buf).cur.rem
    /\ proto = StackParser(buf).proto
    /\ ret = [op |-> "new", arg |-> END, pos0 |-> 0, live |-> FALSE,
              ok |-> TRUE, proto |-> END, ptr |-> NullPtr, len |-> 0]
    /\ pastEnd = FALSE
    /\ walk = NoWalk
    /\ inst = NoInstances /\ alone = NoInstances /\ caller = 0
    /\ heap = NoHeap /\ lret = NoCall
    /\ NoMaps

Parse(p) ==
    LET r == parse(Self, p) IN
    /\ proto' = r.st.proto
    /\ position' = r.st.cur.pos
    /\ remaining' = r.st.cur.rem
    /\ ret' = Call("parse", p, r.ok, END, NullPtr, 0)
    /\ pastEnd' = PastEnd(r.hi)
    /\ UNCHANGED buf
    /\ UNCHANGED otherVars

Next_ ==
    LET r == next(Self) IN
    /\ proto' = r.st.proto
    /\ position' = r.st.cur.pos
    /\ remaining' = r.st.cur.rem
    /\ ret' = Call("next", END, TRUE, r.proto, NullPtr, 0)
    /\ pastEnd' = PastEnd(r.hi)
    /\ UNCHANGED buf
    /\ UNCHANGED otherVars

ProtocolCall ==
    /\ ret' = Call("protocol", END, TRUE, protocol(Self), NullPtr, 0)
    /\ UNCHANGED <<buf, position, remaining, proto, pastEnd>>
    /\ UNCHANGED otherVars

PacketCall ==
    LET v == packet(Self) IN
    /\ ret' = Call("packet", END, TRUE, END, v.ptr, v.len)
    /\ UNCHANGED <<buf, position, remaining, proto, pastEnd>>
    /\ UNCHANGED otherVars

HeaderCall ==
    LET v == header(Self) IN
    /\ ret' = Call("header", END, TRUE, END, v.ptr, v.len)
    /\ pastEnd' = PastEnd(v.hi)
    /\ UNCHANGED <<buf, position, remaining, proto>>
    /\ UNCHANGED otherVars

\* payload() stepping over the header it measures.
PayloadCall_consuming ==
    LET v == payload(Self)
        a == advance(Cursor, header(Self).len) IN
    /\ ret' = Call("payload", END, TRUE, END, v.ptr, v.len)
    /\ pastEnd' = PastEnd(v.hi)
    /\ position' = a.cur.pos
    /\ remaining' = a.cur.rem
    /\ UNCHANGED <<buf, proto>>
    /\ UNCHANGED otherVars

PayloadCall ==
    LET v == payload(Self) IN
    /\ ret' = Call("payload", END, TRUE, END, v.ptr, v.len)
    /\ pastEnd' = PastEnd(v.hi)
    /\ UNCHANGED <<buf, position, remaining, proto>>
    /\ UNCHANGED otherVars

AssignStay(size) ==
    LET v == assign_stay(Cursor, size) IN
    /\ ret' = Call("assign_stay", END, v.ok, END, v.ptr, size)
    /\ pastEnd' = PastEnd(v.hi)
    /\ UNCHANGED <<buf, position, remaining, proto>>
    /\ UNCHANGED otherVars

Next ==
    \/ \E p \in ProtocolArgs : Parse(p)
    \/ Next_
    \/ ProtocolCall
    \/ PacketCall
    \/ HeaderCall
    \/ PayloadCall
    \/ \E size \in {ETH_HLEN, IPV4_HLEN_MIN} : AssignStay(size)

Spec == Init /\ [][Next]_vars

(***************************************************************************)
(* The packet cursor on its own: advance and peek called with any length.  *)
(***************************************************************************)
InitCursor ==
    /\ buf \in CutFrames
    /\ position = 0
    /\ remaining = Len(buf)
    /\ proto = END
    /\ ret = [op |-> "new", arg |-> END, pos0 |-> 0, live |-> FALSE,
              ok |-> TRUE, proto |-> END, ptr |-> NullPtr, len |-> 0]
    /\ pastEnd = FALSE
    /\ walk = NoWalk
    /\ inst = NoInstances /\ alone = NoInstances /\ caller = 0
    /\ heap = NoHeap /\ lret = NoCall
    /\ NoMaps

CursorAdvance(len) ==
    LET a == advance(Cursor, len) IN
    /\ position' = a.cur.pos
    /\ remaining' = a.cur.rem
    /\ ret' = Call("advance", END, a.ok, END, NullPtr, len)
    /\ UNCHANGED <<buf, proto, pastEnd>>
    /\ UNCHANGED otherVars

CursorPeek(off, len) ==
    LET v == peek(Cursor, off, len) IN
    /\ ret' = Call("peek", END, v.ok, END,
                   IF v.ok THEN position + off ELSE NullPtr, len)
    /\ pastEnd' = PastEnd(v.hi)
    /\ UNCHANGED <<buf, position, remaining, proto>>
    /\ UNCHANGED otherVars

NextCursor ==
    \/ \E len \in 0..MaxAdvance : CursorAdvance(len)
    \/ \E off \in 0..2, len \in 0..MaxAdvance : CursorPeek(off, len)

SpecCursor == InitCursor /\ [][NextCursor]_vars

(***************************************************************************)
(* A traversal: parse() at some position, then next() until it returns     *)
(* END, with the calls counted.                                            *)
(***************************************************************************)
RECURSIVE VlanTags(_)
VlanTags(k) == IF k = 0 THEN <<>> ELSE <<L2_VLAN>> \o VlanTags(k - 1)

\* Stacks that nest tunnels or VLAN tags.
WalkShapes ==
    {<<L2_ETHERNET, L3_IPv4>> \o Tunnels(k) \o <<L4_UDP>> : k \in 0..MaxNest}
    \cup {<<L2_ETHERNET>> \o VlanTags(k) \o <<L3_IPv4, L4_SCTP>> : k \in 1..MaxNest}

\* The well-formed frames of a stack.
FramesOf(shape) ==
    {Frame(shape, P, pad, 0, "ok") : P \in {0, MaxPayload}, pad \in {0, MaxPad}}

WalkFrames == UNION {FramesOf(shape) : shape \in WalkShapes}

\* The number of layers of each of these frames.
Layers ==
    [b \in WalkFrames |->
        CHOOSE n \in 1..(3 + 2 * MaxNest) :
            \E shape \in WalkShapes : Len(shape) = n /\ b \in FramesOf(shape)]

InitWalk ==
    /\ buf \in WalkFrames \cup FaultyFrames \cup CutFrames
    /\ position = StackParser(buf).cur.pos
    /\ remaining = StackParser(buf).cur.rem
    /\ proto = StackParser(buf).proto
    /\ ret = [op |-> "new", arg |-> END, pos0 |-> 0, live |-> FALSE,
              ok |-> TRUE, proto |-> END, ptr |-> NullPtr, len |-> 0]
    /\ pastEnd = FALSE
    /\ walk = NoWalk
    /\ inst = NoInstances /\ alone = NoInstances /\ caller = 0
    /\ heap = NoHeap /\ lret = NoCall
    /\ NoMaps

\* parse(p) starts a traversal at the cursor.
WalkParse(p) ==
    LET r == parse(Self, p) IN
    /\ proto' = r.st.proto
    /\ position' = r.st.cur.pos
    /\ remaining' = r.st.cur.rem
    /\ ret' = Call("parse", p, r.ok, END, NullPtr, 0)
    /\ pastEnd' = PastEnd(r.hi)
    /\ walk' = [start |-> position, first |-> p, nexts |-> 0]
    /\ UNCHANGED <<buf, inst, alone, caller, heap, lret, mapVars>>

\* The caller's loop: next() is called while the protocol is not END.
WalkNext ==
    LET r == next(Self) IN
    /\ proto # END
    /\ proto' = r.st.proto
    /\ position' = r.st.cur.pos
    /\ remaining' = r.st.cur.rem
    /\ ret' = Call("next", END, TRUE, r.proto, NullPtr, 0)
    /\ pastEnd' = PastEnd(r.hi)
    /\ walk' = [walk EXCEPT !.nexts = @ + 1]
    /\ UNCHANGED <<buf, inst, alone, caller, heap, lret, mapVars>>

NextWalk ==
    \/ \E p \in ProtocolArgs : WalkParse(p)
    \/ WalkNext

SpecWalk == InitWalk /\ [][NextWalk]_vars

(***************************************************************************)
(* Two parsers constructed over the same buffer, their member functions    *)
(* called in any interleaving.                                             *)
(***************************************************************************)
Instances == {1, 2}

\* The frames the two parsers share: a well-formed one, one cut inside its
\* UDP header, one whose IPv4 header announces no decodable protocol.
PairFrames ==
    LET whole == Frame(<<L2_ETHERNET, L3_IPv4, L4_UDP>>, MaxPayload, 0, 0, "ok")
    IN  {whole, Truncate(whole, ETH_HLEN + IPV4_HLEN_MIN + 4),
         Frame(<<L2_ETHERNET, L3_IPv4, L4_UDP>>, MaxPayload, 0, 2, "unkNext")}

\* The members of a parser object x.
Members(x) == [proto |-> x.proto, cur |-> x.cur]

\* What a member function returned.
Returned(op, arg, ok, p, ptr, len) ==
    [op |-> op, arg |-> arg, ok |-> ok, proto |-> p, ptr |-> ptr, len |-> len]

\* A parser object as its constructor leaves it.
NewParser(pkt) ==
    [proto |-> StackParser(pkt).proto, cur |-> StackParser(pkt).cur,
     ret |-> Returned("new", END, TRUE, END, NullPtr, 0)]

\* A parser object x after a call of each member function.
AfterParse(x, p) ==
    LET r == parse(Members(x), p) IN
    [proto |-> r.st.proto, cur |-> r.st.cur,
     ret |-> Returned("parse", p, r.ok, END, NullPtr, 0)]

AfterNext(x) ==
    LET r == next(Members(x)) IN
    [proto |-> r.st.proto, cur |-> r.st.cur,
     ret |-> Returned("next", END, TRUE, r.proto, NullPtr, 0)]

AfterProtocol(x) ==
    [x EXCEPT !.ret = Returned("protocol", END, TRUE, protocol(Members(x)),
                               NullPtr, 0)]

AfterPacket(x) ==
    LET v == packet(Members(x)) IN
    [x EXCEPT !.ret = Returned("packet", END, TRUE, END, v.ptr, v.len)]

AfterHeader(x) ==
    LET v == header(Members(x)) IN
    [x EXCEPT !.ret = Returned("header", END, TRUE, END, v.ptr, v.len)]

AfterPayload(x) ==
    LET v == payload(Members(x)) IN
    [x EXCEPT !.ret = Returned("payload", END, TRUE, END, v.ptr, v.len)]

InitPair ==
    /\ buf \in PairFrames
    /\ inst = [i \in Instances |-> NewParser(buf)]
    /\ alone = [i \in Instances |-> NewParser(buf)]
    /\ caller = 0
    /\ position = 0 /\ remaining = Len(buf) /\ proto = END
    /\ ret = [op |-> "new", arg |-> END, pos0 |-> 0, live |-> FALSE,
              ok |-> TRUE, proto |-> END, ptr |-> NullPtr, len |-> 0]
    /\ pastEnd = FALSE
    /\ walk = NoWalk
    /\ heap = NoHeap /\ lret = NoCall
    /\ NoMaps

\* What no call on one of the two parsers touches.
pairFrame ==
    <<buf, position, remaining, proto, ret, pastEnd, walk, heap, lret,
      hmap, hret, imap, iret>>

\* parse() with proto a static member: one tag for all parsers.
PairParse_static_proto(i, p) ==
    /\ inst' = [j \in Instances |->
                  IF j = i THEN AfterParse(inst[i], p)
                  ELSE [inst[j] EXCEPT !.proto = AfterParse(inst[i], p).proto]]
    /\ alone' = [alone EXCEPT ![i] = AfterParse(alone[i], p)]
    /\ caller' = i
    /\ UNCHANGED pairFrame

PairParse(i, p) ==
    /\ inst' = [inst EXCEPT ![i] = AfterParse(inst[i], p)]
    /\ alone' = [alone EXCEPT ![i] = AfterParse(alone[i], p)]
    /\ caller' = i
    /\ UNCHANGED pairFrame

PairNext(i) ==
    /\ inst' = [inst EXCEPT ![i] = AfterNext(inst[i])]
    /\ alone' = [alone EXCEPT ![i] = AfterNext(alone[i])]
    /\ caller' = i
    /\ UNCHANGED pairFrame

PairProtocol(i) ==
    /\ inst' = [inst EXCEPT ![i] = AfterProtocol(inst[i])]
    /\ alone' = [alone EXCEPT ![i] = AfterProtocol(alone[i])]
    /\ caller' = i
    /\ UNCHANGED pairFrame

PairPacket(i) ==
    /\ inst' = [inst EXCEPT ![i] = AfterPacket(inst[i])]
    /\ alone' = [alone EXCEPT ![i] = AfterPacket(alone[i])]
    /\ caller' = i
    /\ UNCHANGED pairFrame

PairHeader(i) ==
    /\ inst' = [inst EXCEPT ![i] = AfterHeader(inst[i])]
    /\ alone' = [alone EXCEPT ![i] = AfterHeader(alone[i])]
    /\ caller' = i
    /\ UNCHANGED pairFrame

PairPayload(i) ==
    /\ inst' = [inst EXCEPT ![i] = AfterPayload(inst[i])]
    /\ alone' = [alone EXCEPT ![i] = AfterPayload(alone[i])]
    /\ caller' = i
    /\ UNCHANGED pairFrame

NextPair ==
    \E i \in Instances :
        \/ \E p \in {L2_ETHERNET, L3_IPv4, END} : PairParse(i, p)
        \/ PairNext(i)
        \/ PairProtocol(i)
        \/ PairPacket(i)
        \/ PairHeader(i)
        \/ PairPayload(i)

SpecPair == InitPair /\ [][NextPair]_vars

(***************************************************************************)
(* intrusive::List (src/src/intrusive/List.h): a doubly linked list whose  *)
(* links live in the nodes (ListHook: il_next, il_prev, il_linked).  The   *)
(* heap holds the hooks of the nodes of a storage array and the members of *)
(* the List objects; a pointer is a node's index, or NullPtr.  Each member *)
(* function is an operator from the heap to the heap after the call and    *)
(* the value returned, its assignments made in the order of the code.      *)
(* heap.ub records that a call has dereferenced a null pointer.            *)
(***************************************************************************)
MaxNodes == 3       \* nodes of the storage array

Nodes == 1..MaxNodes

\* ListTest::list and ListTest::test_raii's list_tmp.
Lists == {1, 2}

\* ListHook::ListHook() for every node, List::List() for every list.
NewHeap ==
    [il_next   |-> [n \in Nodes |-> NullPtr],
     il_prev   |-> [n \in Nodes |-> NullPtr],
     il_linked |-> [n \in Nodes |-> FALSE],
     head      |-> [l \in Lists |-> NullPtr],
     tail      |-> [l \in Lists |-> NullPtr],
     list_size |-> [l \in Lists |-> 0],
     ub        |-> FALSE]

\* p->il_next = v, p->il_prev = v, p->il_linked = b; p->il_next, p->il_prev.
SetNext(h, p, v) ==
    IF p = NullPtr THEN [h EXCEPT !.ub = TRUE] ELSE [h EXCEPT !.il_next[p] = v]

SetPrev(h, p, v) ==
    IF p = NullPtr THEN [h EXCEPT !.ub = TRUE] ELSE [h EXCEPT !.il_prev[p] = v]

SetLinked(h, p, b) ==
    IF p = NullPtr THEN [h EXCEPT !.ub = TRUE] ELSE [h EXCEPT !.il_linked[p] = b]

GetNext(h, p) == IF p = NullPtr THEN NullPtr ELSE h.il_next[p]

GetPrev(h, p) == IF p = NullPtr THEN NullPtr ELSE h.il_prev[p]

\* A read through the pointer p.
Deref(h, p) == IF p = NullPtr THEN [h EXCEPT !.ub = TRUE] ELSE h

\* List::sanity_check
sanity_check(h, value) == ~h.il_linked[value]

\* List::link_first
link_first(h, l, value) ==
    LET h1 == SetNext(h, value, NullPtr)
        h2 == SetPrev(h1, value, NullPtr)
        h3 == SetLinked(h2, value, TRUE)
    IN  [h3 EXCEPT !.head[l] = value, !.tail[l] = value, !.list_size[l] = @ + 1]

\* link_head leaving the il_prev of the former head null.
link_head_no_back_link(h, l, value) ==
    LET h1 == SetNext(h, value, h.head[l])
        h2 == SetPrev(h1, value, NullPtr)
        h3 == SetLinked(h2, value, TRUE)
    IN  [h3 EXCEPT !.head[l] = value, !.list_size[l] = @ + 1]

\* List::link_head
link_head(h, l, value) ==
    LET h1 == SetNext(h, value, h.head[l])
        h2 == SetPrev(h1, value, NullPtr)
        h3 == SetLinked(h2, value, TRUE)
        h4 == SetPrev(h3, h3.head[l], value)
    IN  [h4 EXCEPT !.head[l] = value, !.list_size[l] = @ + 1]

\* List::link_tail
link_tail(h, l, value) ==
    LET h1 == SetNext(h, value, NullPtr)
        h2 == SetPrev(h1, value, h.tail[l])
        h3 == SetLinked(h2, value, TRUE)
        h4 == SetNext(h3, h3.tail[l], value)
    IN  [h4 EXCEPT !.tail[l] = value, !.list_size[l] = @ + 1]

\* List::link_before
link_before(h, l, before, value) ==
    LET h1 == SetNext(h, value, before)
        h2 == SetPrev(h1, value, h1.il_prev[before])
        h3 == SetLinked(h2, value, TRUE)
        h4 == SetNext(h3, h3.il_prev[before], value)
        h5 == SetPrev(h4, before, value)
    IN  [h5 EXCEPT !.list_size[l] = @ + 1]

\* List::link_after
link_after(h, l, after, value) ==
    LET h1 == SetNext(h, value, h.il_next[after])
        h2 == SetPrev(h1, value, after)
        h3 == SetLinked(h2, value, TRUE)
        h4 == SetPrev(h3, h3.il_next[after], value)
        h5 == SetNext(h4, after, value)
    IN  [h5 EXCEPT !.list_size[l] = @ + 1]

\* List::unlink_last
unlink_last(h, l) ==
    LET result == h.head[l]
        h1 == SetNext(h, h.head[l], NullPtr)
        h2 == SetPrev(h1, h1.head[l], NullPtr)
        h3 == SetLinked(h2, h2.head[l], FALSE)
    IN  [h |-> [h3 EXCEPT !.head[l] = NullPtr, !.tail[l] = NullPtr,
                          !.list_size[l] = @ - 1],
         result |-> result]

\* List::unlink_head
unlink_head(h, l) ==
    LET result == h.head[l]
        h1 == [Deref(h, h.head[l]) EXCEPT !.head[l] = GetNext(h, h.head[l])]
        h2 == SetPrev(h1, h1.head[l], NullPtr)
        h3 == SetNext(h2, result, NullPtr)
        h4 == SetPrev(h3, result, NullPtr)
        h5 == SetLinked(h4, result, FALSE)
    IN  [h |-> [h5 EXCEPT !.list_size[l] = @ - 1], result |-> result]

\* List::unlink_tail
unlink_tail(h, l) ==
    LET result == h.tail[l]
        h1 == [Deref(h, h.tail[l]) EXCEPT !.tail[l] = GetPrev(h, h.tail[l])]
        h2 == SetNext(h1, h1.tail[l], NullPtr)
        h3 == SetNext(h2, result, NullPtr)
        h4 == SetPrev(h3, result, NullPtr)
        h5 == SetLinked(h4, result, FALSE)
    IN  [h |-> [h5 EXCEPT !.list_size[l] = @ - 1], result |-> result]

\* List::unlink
unlink(h, l, value) ==
    LET h1 == SetNext(h, h.il_prev[value], h.il_next[value])
        h2 == SetPrev(h1, h1.il_next[value], h1.il_prev[value])
        h3 == SetNext(h2, value, NullPtr)
        h4 == SetPrev(h3, value, NullPtr)
        h5 == SetLinked(h4, value, FALSE)
    IN  [h5 EXCEPT !.list_size[l] = @ - 1]

\* push_front without the sanity check.
push_front_unchecked(h, l, value) ==
    [h |-> IF h.head[l] # NullPtr THEN link_head(h, l, value)
           ELSE link_first(h, l, value),
     result |-> TRUE]

\* List::push_front
push_front(h, l, value) ==
    IF sanity_check(h, value)
    THEN [h |-> IF h.head[l] # NullPtr THEN link_head(h, l, value)
                ELSE link_first(h, l, value),
          result |-> TRUE]
    ELSE [h |-> h, result |-> FALSE]

\* List::push_back
push_back(h, l, value) ==
    IF sanity_check(h, value)
    THEN [h |-> IF h.tail[l] # NullPtr THEN link_tail(h, l, value)
                ELSE link_first(h, l, value),
          result |-> TRUE]
    ELSE [h |-> h, result |-> FALSE]

\* pop_front taking the node at the other end.
pop_front_from_tail(h, l) ==
    IF h.head[l] # h.tail[l] THEN unlink_tail(h, l)
    ELSE IF h.head[l] # NullPtr THEN unlink_last(h, l)
    ELSE [h |-> h, result |-> NullPtr]

\* List::pop_front
pop_front(h, l) ==
    IF h.head[l] # h.tail[l] THEN unlink_head(h, l)
    ELSE IF h.head[l] # NullPtr THEN unlink_last(h, l)
    ELSE [h |-> h, result |-> NullPtr]

\* List::pop_back
pop_back(h, l) ==
    IF h.head[l] # h.tail[l] THEN unlink_tail(h, l)
    ELSE IF h.head[l] # NullPtr THEN unlink_last(h, l)
    ELSE [h |-> h, result |-> NullPtr]

\* insert_before without the case of the head node.
insert_before_no_head_case(h, l, before, value) ==
    IF h.il_linked[before] /\ sanity_check(h, value)
    THEN [h |-> link_before(h, l, before, value), result |-> TRUE]
    ELSE [h |-> h, result |-> FALSE]

\* List::insert_before
insert_before(h, l, before, value) ==
    IF h.il_linked[before] /\ sanity_check(h, value)
    THEN [h |-> IF before = h.head[l] THEN link_head(h, l, value)
                ELSE link_before(h, l, before, value),
          result |-> TRUE]
    ELSE [h |-> h, result |-> FALSE]

\* List::insert_after
insert_after(h, l, after, value) ==
    IF h.il_linked[after] /\ sanity_check(h, value)
    THEN [h |-> IF after = h.tail[l] THEN link_tail(h, l, value)
                ELSE link_after(h, l, after, value),
          result |-> TRUE]
    ELSE [h |-> h, result |-> FALSE]

\* remove without the case of the tail node.
remove_no_tail_case(h, l, value) ==
    IF h.head[l] # NullPtr /\ h.il_linked[value]
    THEN [h |-> IF value = h.head[l] THEN pop_front(h, l).h
                ELSE unlink(h, l, value),
          result |-> TRUE]
    ELSE [h |-> h, result |-> FALSE]

\* List::remove
remove(h, l, value) ==
    IF h.head[l] # NullPtr /\ h.il_linked[value]
    THEN [h |-> IF value = h.head[l] THEN pop_front(h, l).h
                ELSE IF value = h.tail[l] THEN pop_back(h, l).h
                ELSE unlink(h, l, value),
          result |-> TRUE]
    ELSE [h |-> h, result |-> FALSE]

\* The loop of List::reset, `while (head) pop_front();`, run for at most
\* fuel iterations: steps counts the iterations made, done tells that the
\* loop condition became false.
RECURSIVE reset_loop(_, _, _, _)
reset_loop(h, l, fuel, steps) ==
    IF h.head[l] = NullPtr THEN [h |-> h, steps |-> steps, done |-> TRUE]
    ELSE IF fuel = 0 THEN [h |-> h, steps |-> steps, done |-> FALSE]
    ELSE reset_loop(pop_front(h, l).h, l, fuel - 1, steps + 1)

\* reset forgetting the nodes instead of popping them.
reset_clean_state(h, l) ==
    [h |-> [h EXCEPT !.head[l] = NullPtr, !.tail[l] = NullPtr,
                     !.list_size[l] = 0],
     steps |-> 0, done |-> TRUE]

\* List::reset (LinkedList::clear)
reset(h, l) == reset_loop(h, l, MaxNodes + 1, 0)

\* List::List(List&& rv): the list constructed in l takes the members of rv.
move_construct(h, l, rv) ==
    LET h1 == [h EXCEPT !.head[l] = h.head[rv], !.tail[l] = h.tail[rv],
                        !.list_size[l] = h.list_size[rv]]
    IN  [h1 EXCEPT !.head[rv] = NullPtr, !.tail[rv] = NullPtr,
                   !.list_size[rv] = 0]

\* Move assignment without the test `this != &rv`.
move_assign_no_self_check(h, l, rv) ==
    LET h1 == [h EXCEPT !.head[l] = h.head[rv], !.tail[l] = h.tail[rv],
                        !.list_size[l] = h.list_size[rv]]
    IN  [h1 EXCEPT !.head[rv] = NullPtr, !.tail[rv] = NullPtr,
                   !.list_size[rv] = 0]

\* List::operator=(List&& rv)
move_assign(h, l, rv) ==
    IF l # rv
    THEN LET h1 == [h EXCEPT !.head[l] = h.head[rv], !.tail[l] = h.tail[rv],
                             !.list_size[l] = h.list_size[rv]]
         IN  [h1 EXCEPT !.head[rv] = NullPtr, !.tail[rv] = NullPtr,
                        !.list_size[rv] = 0]
    ELSE h

(***************************************************************************)
(* The List state machine: the member functions of ListTest::list called   *)
(* in any order with any nodes of the storage array.                       *)
(***************************************************************************)
\* ListTest::list
TestLists == {1}

\* The record of a call: its name, the list, the node passed (value), the
\* node passed as position (before, after), the flag and the node returned.
ListCall(op, l, value, at, ok, out) ==
    [op |-> op, list |-> l, value |-> value, at |-> at, ok |-> ok, out |-> out]

InitList ==
    /\ heap = NewHeap
    /\ lret = ListCall("new", 1, NullPtr, NullPtr, TRUE, NullPtr)
    /\ buf = <<>> /\ position = 0 /\ remaining = 0 /\ proto = END
    /\ ret = [op |-> "new", arg |-> END, pos0 |-> 0, live |-> FALSE,
              ok |-> TRUE, proto |-> END, ptr |-> NullPtr, len |-> 0]
    /\ pastEnd = FALSE
    /\ walk = NoWalk
    /\ inst = NoInstances /\ alone = NoInstances /\ caller = 0
    /\ NoMaps

PushFront(l, value) ==
    LET r == push_front(heap, l, value) IN
    /\ heap' = r.h
    /\ lret' = ListCall("push_front", l, value, NullPtr, r.result, NullPtr)
    /\ UNCHANGED <<parserVars, mapVars>>

PushBack(l, value) ==
    LET r == push_back(heap, l, value) IN
    /\ heap' = r.h
    /\ lret' = ListCall("push_back", l, value, NullPtr, r.result, NullPtr)
    /\ UNCHANGED <<parserVars, mapVars>>

PopFront(l) ==
    LET r == pop_front(heap, l) IN
    /\ heap' = r.h
    /\ lret' = ListCall("pop_front", l, NullPtr, NullPtr, TRUE, r.result)
    /\ UNCHANGED <<parserVars, mapVars>>

PopBack(l) ==
    LET r == pop_back(heap, l) IN
    /\ heap' = r.h
    /\ lret' = ListCall("pop_back", l, NullPtr, NullPtr, TRUE, r.result)
    /\ UNCHANGED <<parserVars, mapVars>>

InsertBefore(l, before, value) ==
    LET r == insert_before(heap, l, before, value) IN
    /\ heap' = r.h
    /\ lret' = ListCall("insert_before", l, value, before, r.result, NullPtr)
    /\ UNCHANGED <<parserVars, mapVars>>

InsertAfter(l, after, value) ==
    LET r == insert_after(heap, l, after, value) IN
    /\ heap' = r.h
    /\ lret' = ListCall("insert_after", l, value, after, r.result, NullPtr)
    /\ UNCHANGED <<parserVars, mapVars>>

Remove(l, value) ==
    LET r == remove(heap, l, value) IN
    /\ heap' = r.h
    /\ lret' = ListCall("remove", l, value, NullPtr, r.result, NullPtr)
    /\ UNCHANGED <<parserVars, mapVars>>

\* The call record of reset carries in ok whether the loop ended and in out
\* the number of pop_front calls it made.
Reset(l) ==
    LET r == reset(heap, l) IN
    /\ heap' = r.h
    /\ lret' = ListCall("reset", l, NullPtr, NullPtr, r.done, r.steps)
    /\ UNCHANGED <<parserVars, mapVars>>

NextList ==
    \E l \in TestLists :
        \/ \E value \in Nodes : PushFront(l, value)
        \/ \E value \in Nodes : PushBack(l, value)
        \/ PopFront(l)
        \/ PopBack(l)
        \/ \E before \in Nodes, value \in Nodes : InsertBefore(l, before, value)
        \/ \E after \in Nodes, value \in Nodes : InsertAfter(l, after, value)
        \/ \E value \in Nodes : Remove(l, value)
        \/ Reset(l)

SpecList == InitList /\ [][NextList]_vars

(***************************************************************************)
(* Two lists over one pool of nodes, as list and list_tmp of               *)
(* ListTest::test_raii over ListTest::storage: every member function on    *)
(* either list with any node of the pool, and the moves between the lists. *)
(* A step that dereferences a null pointer sets heap.ub; what the program  *)
(* does from there on is undefined, and no step is taken from such a       *)
(* state.                                                                  *)
(***************************************************************************)
InitPool ==
    /\ heap = NewHeap
    /\ lret = ListCall("new", 2, NullPtr, NullPtr, TRUE, NullPtr)
    /\ buf = <<>> /\ position = 0 /\ remaining = 0 /\ proto = END
    /\ ret = [op |-> "new", arg |-> END, pos0 |-> 0, live |-> FALSE,
              ok |-> TRUE, proto |-> END, ptr |-> NullPtr, len |-> 0]
    /\ pastEnd = FALSE
    /\ walk = NoWalk
    /\ inst = NoInstances /\ alone = NoInstances /\ caller = 0
    /\ NoMaps

\* A list is constructed in l from rv: l holds no list before, it was never
\* constructed or ~List has run, which leaves head null.  The call record
\* names rv in its field at.
MoveConstruct(l, rv) ==
    /\ l # rv
    /\ heap.head[l] = NullPtr
    /\ heap' = move_construct(heap, l, rv)
    /\ lret' = ListCall("move_construct", l, NullPtr, rv, TRUE, NullPtr)
    /\ UNCHANGED <<parserVars, mapVars>>

MoveAssign(l, rv) ==
    /\ heap' = move_assign(heap, l, rv)
    /\ lret' = ListCall("move_assign", l, NullPtr, rv, TRUE, NullPtr)
    /\ UNCHANGED <<parserVars, mapVars>>

\* The largest difference between a list's size() and the number of nodes
\* reached from its head from which the exploration still goes on.
MaxSkew == 1

\* The nodes met from the node p on by following il_next, k of them at most.
RECURSIVE Forward(_, _, _)
Forward(h, p, k) ==
    IF p = NullPtr \/ k = 0 THEN <<>>
    ELSE <<p>> \o Forward(h, h.il_next[p], k - 1)

\* The program is running: no step has had undefined behaviour, and the
\* counters are within the range explored.
Running ==
    /\ ~heap.ub
    /\ \A l \in Lists :
          heap.list_size[l] - Len(Forward(heap, heap.head[l], MaxNodes + 1))
              \in (0 - MaxSkew)..MaxSkew

NextPool ==
    \E l \in Lists :
        \/ Running /\ \E value \in Nodes : PushFront(l, value)
        \/ Running /\ \E value \in Nodes : PushBack(l, value)
        \/ Running /\ PopFront(l)
        \/ Running /\ PopBack(l)
        \/ Running /\ \E before \in Nodes, value \in Nodes :
                          InsertBefore(l, before, value)
        \/ Running /\ \E after \in Nodes, value \in Nodes :
                          InsertAfter(l, after, value)
        \/ Running /\ \E value \in Nodes : Remove(l, value)
        \/ Running /\ Reset(l)
        \/ Running /\ \E rv \in Lists : MoveConstruct(l, rv)
        \/ Running /\ \E rv \in Lists : MoveAssign(l, rv)

SpecPool == InitPool /\ [][NextPool]_vars

(***************************************************************************)
(* The two lists as ListTest::test_raii uses them: filled by pushes,       *)
(* emptied by pops and reset, and moved into one another, a non-empty      *)
(* destination included.                                                   *)
(***************************************************************************)
NextMove ==
    \E l \in Lists :
        \/ \E value \in Nodes : PushFront(l, value)
        \/ \E value \in Nodes : PushBack(l, value)
        \/ PopFront(l)
        \/ PopBack(l)
        \/ Reset(l)
        \/ \E rv \in Lists : MoveConstruct(l, rv)
        \/ \E rv \in Lists : MoveAssign(l, rv)

SpecMove == InitPool /\ [][NextMove]_vars

(***************************************************************************)
(* intrusive::HashMap (HashMap.h): one map of NumBuckets buckets over a    *)
(* pool of nodes.  A node is its HashMapHook (im_next, im_key, im_linked), *)
(* a bucket its head and size.  bucket_list tells whether the bucket array *)
(* is allocated; indexing it while it is null is undefined behaviour (ub). *)
(* The assertions of check_free and check_linked are part of the code: a   *)
(* failed one ends the program (aborted).  size_t counters are held as     *)
(* their signed residues: -1 stands for 2^64 - 1.                          *)
(***************************************************************************)
MaxMapNodes == 3
MaxKey == 2
NumBuckets == 2

MapNodes == 1..MaxMapNodes
Keys == 0..MaxKey
BucketIds == 0..(NumBuckets - 1)

\* std::hash<K> of an integral key: the key itself.
hasher(key) == key

\* HashMap::HashMap(size_t), with every HashMapHook as constructed.  linked
\* is history: the linked nodes, the one linked last first.
NewHashMap ==
    [im_next |-> [n \in MapNodes |-> NullPtr],
     im_key |-> [n \in MapNodes |-> 0],
     im_linked |-> [n \in MapNodes |-> FALSE],
     bucket_list |-> FALSE,
     bucket_list_size |-> NumBuckets,
     head |-> [b \in BucketIds |-> NullPtr],
     size |-> [b \in BucketIds |-> 0],
     elements |-> 0,
     linked |-> <<>>,
     ub |-> FALSE,
     aborted |-> FALSE]

\* HashMap::allocate
HashMap_allocate(h) ==
    IF h.bucket_list THEN [h |-> h, result |-> FALSE]
    ELSE [h |-> [h EXCEPT !.bucket_list = TRUE,
                          !.head = [b \in BucketIds |-> NullPtr],
                          !.size = [b \in BucketIds |-> 0]],
          result |-> TRUE]

\* HashMap::link_front
HashMap_link_front(h, bucket_id, key, node) ==
    [h EXCEPT !.im_next[node] = h.head[bucket_id],
              !.im_linked[node] = TRUE,
              !.im_key[node] = key,
              !.head[bucket_id] = node,
              !.size[bucket_id] = @ + 1,
              !.elements = @ + 1,
              !.linked = <<node>> \o @]

\* HashMap::unlink_front
HashMap_unlink_front(h, bucket_id) ==
    LET tmp_value == h.head[bucket_id] IN
    IF tmp_value = NullPtr THEN [h EXCEPT !.ub = TRUE]
    ELSE [h EXCEPT !.head[bucket_id] = h.im_next[tmp_value],
                   !.im_next[tmp_value] = NullPtr,
                   !.im_linked[tmp_value] = FALSE,
                   !.size[bucket_id] = @ - 1,
                   !.elements = @ - 1,
                   !.linked = SelectSeq(@, LAMBDA n : n # tmp_value)]

\* HashMap::unlink_next
HashMap_unlink_next(h, bucket_id, node) ==
    IF node = NullPtr THEN [h EXCEPT !.ub = TRUE]
    ELSE LET tmp_value == h.im_next[node] IN
         IF tmp_value = NullPtr THEN [h EXCEPT !.ub = TRUE]
         ELSE LET h1 == [h EXCEPT !.im_next[node] = h.im_next[tmp_value]]
              IN  [h1 EXCEPT !.im_next[tmp_value] = NullPtr,
                             !.im_linked[tmp_value] = FALSE,
                             !.size[bucket_id] = @ - 1,
                             !.elements = @ - 1,
                             !.linked = SelectSeq(@, LAMBDA n : n # tmp_value)]

\* The loop of HashMap::find(size_t, const K&) from cur on, for at most
\* fuel nodes.
RECURSIVE HashMap_find_loop(_, _, _, _)
HashMap_find_loop(h, cur, key, fuel) ==
    IF cur = NullPtr \/ fuel = 0 THEN cur
    ELSE IF h.im_key[cur] = key THEN cur
    ELSE HashMap_find_loop(h, h.im_next[cur], key, fuel - 1)

\* HashMap::find(size_t bucket_id, const K& key)
HashMap_find_in(h, bucket_id, key) ==
    HashMap_find_loop(h, h.head[bucket_id], key, MaxMapNodes + 1)

\* The loop of HashMap::find_prev.
RECURSIVE HashMap_find_prev_loop(_, _, _, _, _)
HashMap_find_prev_loop(h, cur, prev, node, fuel) ==
    IF cur = NullPtr \/ fuel = 0 THEN NullPtr
    ELSE IF cur = node THEN prev
    ELSE HashMap_find_prev_loop(h, h.im_next[cur], cur, node, fuel - 1)

\* HashMap::find_prev
HashMap_find_prev(h, bucket_id, node) ==
    HashMap_find_prev_loop(h, h.head[bucket_id], NullPtr, node, MaxMapNodes + 1)

\* link putting the node at the bucket's head only when the key is new.
HashMap_link_unique(h, key, node) ==
    IF h.im_linked[node] THEN [h EXCEPT !.aborted = TRUE]
    ELSE IF ~h.bucket_list THEN [h EXCEPT !.ub = TRUE]
    ELSE LET bucket_id == hasher(key) % h.bucket_list_size IN
         IF HashMap_find_in(h, bucket_id, key) = NullPtr
         THEN HashMap_link_front(h, bucket_id, key, node)
         ELSE h

\* HashMap::link; the iterator returned points to node.
HashMap_link(h, key, node) ==
    IF h.im_linked[node] THEN [h EXCEPT !.aborted = TRUE]
    ELSE IF ~h.bucket_list THEN [h EXCEPT !.ub = TRUE]
    ELSE LET bucket_id == hasher(key) % h.bucket_list_size IN
         HashMap_link_front(h, bucket_id, key, node)

\* HashMap::find(const K& key): the node of the iterator returned.
HashMap_find(h, key) ==
    HashMap_find_in(h, hasher(key) % h.bucket_list_size, key)

\* Iterator::next keeping to the chain but not to the key.
Iterator_next_any_key(h, m_node, key) == h.im_next[m_node]

\* HashMap::Iterator::next(const K& key) of an iterator at m_node.
Iterator_next(h, m_node, key) ==
    HashMap_find_loop(h, h.im_next[m_node], key, MaxMapNodes + 1)

\* remove unlinking the head of the node's bucket whatever the node.
HashMap_remove_front(h, node) ==
    IF ~h.im_linked[node] THEN [h EXCEPT !.aborted = TRUE]
    ELSE IF ~h.bucket_list THEN [h EXCEPT !.ub = TRUE]
    ELSE HashMap_unlink_front(h, hasher(h.im_key[node]) % h.bucket_list_size)

\* HashMap::remove(MapNode&)
HashMap_remove(h, node) ==
    IF ~h.im_linked[node] THEN [h EXCEPT !.aborted = TRUE]
    ELSE IF ~h.bucket_list THEN [h EXCEPT !.ub = TRUE]
    ELSE LET bucket_id == hasher(h.im_key[node]) % h.bucket_list_size IN
         IF node = h.head[bucket_id] THEN HashMap_unlink_front(h, bucket_id)
         ELSE HashMap_unlink_next(h, bucket_id,
                                  HashMap_find_prev(h, bucket_id, node))

\* The inner loop of HashMap::clear for bucket i.
RECURSIVE HashMap_clear_bucket(_, _, _)
HashMap_clear_bucket(h, i, fuel) ==
    IF h.head[i] = NullPtr \/ fuel = 0 THEN h
    ELSE HashMap_clear_bucket(HashMap_unlink_front(h, i), i, fuel - 1)

\* The outer loop of HashMap::clear from bucket i on.
RECURSIVE HashMap_clear_from(_, _)
HashMap_clear_from(h, i) ==
    IF i >= h.bucket_list_size THEN h
    ELSE HashMap_clear_from(HashMap_clear_bucket(h, i, MaxMapNodes + 1), i + 1)

\* clear emptying the first bucket only.
HashMap_clear_first(h) ==
    IF ~h.bucket_list THEN [h EXCEPT !.ub = TRUE]
    ELSE HashMap_clear_bucket(h, 0, MaxMapNodes + 1)

\* HashMap::clear
HashMap_clear(h) ==
    IF ~h.bucket_list THEN [h EXCEPT !.ub = TRUE]
    ELSE HashMap_clear_from(h, 0)

\* HashMap::size
HashMap_size(h) == h.elements

\* HashMap::buckets
HashMap_buckets(h) == h.bucket_list_size

(***************************************************************************)
(* The HashMap state machine: allocate, link, find, Iterator::next,        *)
(* remove, clear and size called in any order with any key and node.       *)
(* hret.it is the node of the iterator the last call returned; hret.out is *)
(* the flag or number returned and, for remove, the node find_prev found.  *)
(***************************************************************************)
HashMapCall(op, key, node, it, out) ==
    [op |-> op, key |-> key, node |-> node, it |-> it, out |-> out]

\* The program is running: no assertion has failed, no step has had
\* undefined behaviour.
HashMapRunning == ~hmap.ub /\ ~hmap.aborted

hashMapFrame == <<parserVars, heap, lret, imap, iret>>

InitHashMap ==
    /\ hmap = NewHashMap
    /\ hret = HashMapCall("new", 0, NullPtr, NullPtr, 0)
    /\ imap = NoHeap /\ iret = NoCall
    /\ heap = NoHeap /\ lret = NoCall
    /\ buf = <<>> /\ position = 0 /\ remaining = 0 /\ proto = END
    /\ ret = [op |-> "new", arg |-> END, pos0 |-> 0, live |-> FALSE,
              ok |-> TRUE, proto |-> END, ptr |-> NullPtr, len |-> 0]
    /\ pastEnd = FALSE
    /\ walk = NoWalk
    /\ inst = NoInstances /\ alone = NoInstances /\ caller = 0

HashMapAllocate ==
    LET r == HashMap_allocate(hmap) IN
    /\ HashMapRunning
    /\ hmap' = r.h
    /\ hret' = HashMapCall("allocate", 0, NullPtr, NullPtr,
                           IF r.result THEN 1 ELSE 0)
    /\ UNCHANGED hashMapFrame

HashMapLink(key, node) ==
    /\ HashMapRunning
    /\ hmap' = HashMap_link(hmap, key, node)
    /\ hret' = HashMapCall("link", key, node, node, 0)
    /\ UNCHANGED hashMapFrame

HashMapFind(key) ==
    /\ HashMapRunning
    /\ hmap' = IF hmap.bucket_list THEN hmap ELSE [hmap EXCEPT !.ub = TRUE]
    /\ hret' = HashMapCall("find", key, NullPtr,
                           IF hmap.bucket_list THEN HashMap_find(hmap, key)
                           ELSE NullPtr, 0)
    /\ UNCHANGED hashMapFrame

\* Iterator::next on the iterator the last call returned, when it is not
\* the null iterator.
HashMapIteratorNext(key) ==
    /\ HashMapRunning
    /\ hret.it # NullPtr
    /\ hmap' = hmap
    /\ hret' = HashMapCall("next", key, hret.it,
                           Iterator_next(hmap, hret.it, key), 0)
    /\ UNCHANGED hashMapFrame

HashMapRemove(node) ==
    /\ HashMapRunning
    /\ hmap' = HashMap_remove(hmap, node)
    /\ hret' = HashMapCall("remove", hmap.im_key[node], node, NullPtr,
                           IF hmap.im_linked[node] /\ hmap.bucket_list
                           THEN HashMap_find_prev(hmap,
                                    hasher(hmap.im_key[node]) % hmap.bucket_list_size,
                                    node)
                           ELSE NullPtr)
    /\ UNCHANGED hashMapFrame

HashMapClear ==
    /\ HashMapRunning
    /\ hmap' = HashMap_clear(hmap)
    /\ hret' = HashMapCall("clear", 0, NullPtr, NullPtr, 0)
    /\ UNCHANGED hashMapFrame

HashMapSize ==
    /\ HashMapRunning
    /\ hmap' = hmap
    /\ hret' = HashMapCall("size", 0, NullPtr, NullPtr, HashMap_size(hmap))
    /\ UNCHANGED hashMapFrame

NextHashMap ==
    \/ HashMapAllocate
    \/ \E key \in Keys, node \in MapNodes : HashMapLink(key, node)
    \/ \E key \in Keys : HashMapFind(key)
    \/ \E key \in Keys : HashMapIteratorNext(key)
    \/ \E node \in MapNodes : HashMapRemove(node)
    \/ HashMapClear
    \/ HashMapSize

SpecHashMap == InitHashMap /\ [][NextHashMap]_vars

(***************************************************************************)
(* IntrusiveMap: one map over an array of NumBuckets buckets, as           *)
(* constructed (every Bucket with list null and size 0), and a pool of     *)
(* nodes, each with its Hook as constructed.  last is history: for every   *)
(* key the value of the last put() that returned true and that no          *)
(* remove() or reset() has taken out since; the actions keep it, the       *)
(* member functions never read it.                                         *)
(***************************************************************************)
IntrusiveMap ==
    [im_next |-> [n \in MapNodes |-> NullPtr],
     im_key |-> [n \in MapNodes |-> 0],
     im_linked |-> [n \in MapNodes |-> FALSE],
     bucket_list_size |-> NumBuckets,
     list |-> [b \in BucketIds |-> NullPtr],
     size |-> [b \in BucketIds |-> 0],
     elements |-> 0,
     last |-> [k \in Keys |-> NullPtr],
     ub |-> FALSE]

\* IntrusiveMap::sanity_check
IntrusiveMap_sanity_check(m, value) == ~m.im_linked[value]

\* IntrusiveMap::link_front
IntrusiveMap_link_front(m, bucket, key, value) ==
    [m EXCEPT !.im_next[value] = m.list[bucket],
              !.im_linked[value] = TRUE,
              !.im_key[value] = key,
              !.list[bucket] = value,
              !.size[bucket] = @ + 1,
              !.elements = @ + 1]

\* IntrusiveMap::unlink_front
IntrusiveMap_unlink_front(m, bucket) ==
    LET tmp_value == m.list[bucket] IN
    IF tmp_value = NullPtr THEN [m EXCEPT !.ub = TRUE]
    ELSE [m EXCEPT !.list[bucket] = m.im_next[tmp_value],
                   !.im_next[tmp_value] = NullPtr,
                   !.im_linked[tmp_value] = FALSE,
                   !.size[bucket] = @ - 1,
                   !.elements = @ - 1]

\* IntrusiveMap::unlink_next
IntrusiveMap_unlink_next(m, bucket, value) ==
    IF value = NullPtr THEN [m EXCEPT !.ub = TRUE]
    ELSE LET tmp_value == m.im_next[value] IN
         IF tmp_value = NullPtr THEN [m EXCEPT !.ub = TRUE]
         ELSE LET m1 == [m EXCEPT !.im_next[value] = m.im_next[tmp_value]]
              IN  [m1 EXCEPT !.im_next[tmp_value] = NullPtr,
                             !.im_linked[tmp_value] = FALSE,
                             !.size[bucket] = @ - 1,
                             !.elements = @ - 1]

\* The loop of IntrusiveMap::find(Bucket&, K, V*& prev) from cur on, for at
\* most fuel nodes: the node found and the node before it.
RECURSIVE IntrusiveMap_find_loop(_, _, _, _, _)
IntrusiveMap_find_loop(m, cur, prev, key, fuel) ==
    IF cur = NullPtr \/ fuel = 0 THEN [result |-> cur, prev |-> prev]
    ELSE IF m.im_key[cur] = key THEN [result |-> cur, prev |-> prev]
    ELSE IntrusiveMap_find_loop(m, m.im_next[cur], cur, key, fuel - 1)

\* IntrusiveMap::find(Bucket&, K, V*& prev), called with prev = nullptr
IntrusiveMap_find_prev(m, bucket, key) ==
    IntrusiveMap_find_loop(m, m.list[bucket], NullPtr, key, MaxMapNodes + 1)

\* IntrusiveMap::find(Bucket&, K)
IntrusiveMap_find_in(m, bucket, key) ==
    IntrusiveMap_find_loop(m, m.list[bucket], NullPtr, key, MaxMapNodes + 1).result

\* put without the look-up of the key.
IntrusiveMap_put_no_find(m, key, value) ==
    IF IntrusiveMap_sanity_check(m, value)
    THEN [m |-> IntrusiveMap_link_front(m, key % m.bucket_list_size, key, value),
          result |-> TRUE]
    ELSE [m |-> m, result |-> FALSE]

\* IntrusiveMap::put
IntrusiveMap_put(m, key, value) ==
    IF IntrusiveMap_sanity_check(m, value)
    THEN LET index == key % m.bucket_list_size IN
         IF IntrusiveMap_find_in(m, index, key) = NullPtr
         THEN [m |-> IntrusiveMap_link_front(m, index, key, value),
               result |-> TRUE]
         ELSE [m |-> m, result |-> FALSE]
    ELSE [m |-> m, result |-> FALSE]

\* remove unlinking the first node of the bucket whatever node was found.
IntrusiveMap_remove_front(m, key) ==
    LET index == key % m.bucket_list_size
        f == IntrusiveMap_find_prev(m, index, key)
    IN  IF f.result # NullPtr
        THEN [m |-> IntrusiveMap_unlink_front(m, index), result |-> TRUE]
        ELSE [m |-> m, result |-> FALSE]

\* IntrusiveMap::remove
IntrusiveMap_remove(m, key) ==
    LET index == key % m.bucket_list_size
        f == IntrusiveMap_find_prev(m, index, key)
    IN  IF f.result # NullPtr
        THEN [m |-> IF f.result = m.list[index]
                    THEN IntrusiveMap_unlink_front(m, index)
                    ELSE IntrusiveMap_unlink_next(m, index, f.prev),
              result |-> TRUE]
        ELSE [m |-> m, result |-> FALSE]

\* The inner loop of IntrusiveMap::reset for bucket i.
RECURSIVE IntrusiveMap_reset_bucket(_, _, _)
IntrusiveMap_reset_bucket(m, i, fuel) ==
    IF m.list[i] = NullPtr \/ fuel = 0 THEN m
    ELSE IntrusiveMap_reset_bucket(IntrusiveMap_unlink_front(m, i), i, fuel - 1)

\* The outer loop of IntrusiveMap::reset from bucket i on.
RECURSIVE IntrusiveMap_reset_from(_, _)
IntrusiveMap_reset_from(m, i) ==
    IF i >= m.bucket_list_size THEN m
    ELSE IntrusiveMap_reset_from(
             IntrusiveMap_reset_bucket(m, i, MaxMapNodes + 1), i + 1)

\* IntrusiveMap::reset
IntrusiveMap_reset(m) == IntrusiveMap_reset_from(m, 0)

\* IntrusiveMap::find(K)
IntrusiveMap_find(m, key) ==
    IntrusiveMap_find_in(m, key % m.bucket_list_size, key)

\* IntrusiveMap::size
IntrusiveMap_size(m) == m.elements

(***************************************************************************)
(* The IntrusiveMap state machine: put, remove, reset, find and size       *)
(* called in any order with any key and node.                              *)
(***************************************************************************)
\* The record of a call: its name, the key and the node passed, the flag
\* and the node or number returned.  For remove, value is the node the
\* look-up left in prev and out the node it found.
MapCall(op, key, value, ok, out) ==
    [op |-> op, key |-> key, value |-> value, ok |-> ok, out |-> out]

intrusiveMapFrame == <<parserVars, heap, lret, hmap, hret>>

InitIntrusiveMap ==
    /\ imap = IntrusiveMap
    /\ iret = MapCall("new", 0, NullPtr, TRUE, NullPtr)
    /\ hmap = NoHeap /\ hret = NoCall
    /\ heap = NoHeap /\ lret = NoCall
    /\ buf = <<>> /\ position = 0 /\ remaining = 0 /\ proto = END
    /\ ret = [op |-> "new", arg |-> END, pos0 |-> 0, live |-> FALSE,
              ok |-> TRUE, proto |-> END, ptr |-> NullPtr, len |-> 0]
    /\ pastEnd = FALSE
    /\ walk = NoWalk
    /\ inst = NoInstances /\ alone = NoInstances /\ caller = 0

MapPut(key, value) ==
    LET r == IntrusiveMap_put(imap, key, value) IN
    /\ ~imap.ub
    /\ imap' = IF r.result THEN [r.m EXCEPT !.last[key] = value] ELSE r.m
    /\ iret' = MapCall("put", key, value, r.result, NullPtr)
    /\ UNCHANGED intrusiveMapFrame

MapRemove(key) ==
    LET r == IntrusiveMap_remove(imap, key) IN
    /\ ~imap.ub
    /\ imap' = IF r.result THEN [r.m EXCEPT !.last[key] = NullPtr] ELSE r.m
    /\ iret' = MapCall("remove", key,
                       IntrusiveMap_find_prev(imap, key % imap.bucket_list_size,
                                              key).prev,
                       r.result, IntrusiveMap_find(imap, key))
    /\ UNCHANGED intrusiveMapFrame

MapReset ==
    /\ ~imap.ub
    /\ imap' = [IntrusiveMap_reset(imap) EXCEPT !.last = [k \in Keys |-> NullPtr]]
    /\ iret' = MapCall("reset", 0, NullPtr, TRUE, NullPtr)
    /\ UNCHANGED intrusiveMapFrame

MapFind(key) ==
    /\ ~imap.ub
    /\ imap' = imap
    /\ iret' = MapCall("find", key, NullPtr, TRUE, IntrusiveMap_find(imap, key))
    /\ UNCHANGED intrusiveMapFrame

MapSize ==
    /\ ~imap.ub
    /\ imap' = imap
    /\ iret' = MapCall("size", 0, NullPtr, TRUE, IntrusiveMap_size(imap))
    /\ UNCHANGED intrusiveMapFrame

NextIntrusiveMap ==
    \/ \E key \in Keys, value \in MapNodes : MapPut(key, value)
    \/ \E key \in Keys : MapRemove(key)
    \/ MapReset
    \/ \E key \in Keys : MapFind(key)
    \/ MapSize

SpecIntrusiveMap == InitIntrusiveMap /\ [][NextIntrusiveMap]_vars

(***************************************************************************)
(* The contract of the protocol modules, by protocol: what the claims      *)
(* compare the parser's calls with.                                        *)
(***************************************************************************)
\* The minimum fixed header size of protocol p.
FixedLen(p) ==
    CASE p = L2_ETHERNET -> ETH_HLEN
      [] p = L2_VLAN     -> VLAN_HLEN
      [] p = L3_IPv4     -> IPV4_HLEN_MIN
      [] p = L4_GRE      -> GRE_HLEN_MIN
      [] p = L4_UDP      -> UDP_HLEN
      [] p = L4_SCTP     -> SCTP_HLEN

\* validate(cursor) of protocol p; no protocol other than the six validates.
ModuleValid(p, cur) ==
    CASE p = L2_ETHERNET -> EthernetValidatePacket(cur).ok
      [] p = L2_VLAN     -> VlanValidatePacket(cur).ok
      [] p = L3_IPv4     -> IPv4ValidatePacket(cur).ok
      [] p = L4_GRE      -> GreValidatePacket(cur).ok
      [] p = L4_UDP      -> UdpValidatePacket(cur).ok
      [] p = L4_SCTP     -> SctpValidatePacket(cur).ok
      [] OTHER           -> FALSE

\* header_length(cursor) of protocol p.
ModuleHeaderLength(p, cur) ==
    CASE p = L2_ETHERNET -> EthernetLengthHeader(cur).len
      [] p = L2_VLAN     -> VlanLengthHeader(cur).len
      [] p = L3_IPv4     -> IPv4LengthHeader(cur).len
      [] p = L4_GRE      -> GreLengthHeader(cur).len
      [] p = L4_UDP      -> UdpLengthHeader(cur).len
      [] p = L4_SCTP     -> SctpLengthHeader(cur).len

\* payload_length(cursor) of protocol p.
ModulePayloadLength(p, cur) ==
    CASE p = L2_ETHERNET -> EthernetLengthPayload(cur).len
      [] p = L2_VLAN     -> VlanLengthPayload(cur).len
      [] p = L3_IPv4     -> IPv4LengthPayload(cur).len
      [] p = L4_GRE      -> GreLengthPayload(cur).len
      [] p = L4_UDP      -> UdpLengthPayload(cur).len
      [] p = L4_SCTP     -> SctpLengthPayload(cur).len

\* next_protocol(cursor) of protocol p.
ModuleNextProtocol(p, cur) ==
    CASE p = L2_ETHERNET -> EthernetNextProtocol(cur).proto
      [] p = L2_VLAN     -> VlanNextProtocol(cur).proto
      [] p = L3_IPv4     -> IPv4NextProtocol(cur).proto
      [] p = L4_GRE      -> GreNextProtocol(cur).proto
      [] p = L4_UDP      -> UdpNextProtocol(cur).proto
      [] p = L4_SCTP     -> SctpNextProtocol(cur).proto

\* The cursor moved n bytes on.
Moved(cur, n) == [pos |-> cur.pos + n, rem |-> cur.rem - n]

\* The step just taken is a call of the member function op.
Called(op) == ret'.op = op

(***************************************************************************)
(* Claims about StackParser.                                               *)
(***************************************************************************)
\* The well-formed Ethernet/IPv4/UDP frames: any payload and padding, with
\* and without IPv4 options.
EthIpUdpFrames ==
    {Frame(<<L2_ETHERNET, L3_IPv4, L4_UDP>>, P, pad, 2, kind) :
        P \in 0..MaxPayload, pad \in {0, MaxPad}, kind \in {"ok", "opts"}}

\* C1: over a well-formed Ethernet/IPv4/UDP frame, parse() at the frame's
\* start returns true and makes L2_ETHERNET current; next() from there
\* returns L3_IPv4 at offset 14, next() from there returns L4_UDP at the end
\* of the IPv4 header, and next() from there returns END.
C1_EthIpUdpSequence ==
    [][(buf \in EthIpUdpFrames) =>
        (/\ ((Called("parse") /\ ret'.arg = L2_ETHERNET /\ position = 0)
                => (ret'.ok /\ proto' = L2_ETHERNET /\ position' = 0))
         /\ ((Called("next") /\ proto = L2_ETHERNET /\ position = 0)
                => (ret'.proto = L3_IPv4 /\ proto' = L3_IPv4
                    /\ position' = ETH_HLEN))
         /\ ((Called("next") /\ proto = L3_IPv4 /\ position = ETH_HLEN)
                => (ret'.proto = L4_UDP /\ proto' = L4_UDP
                    /\ position' = ETH_HLEN + IPv4Ihl(Cursor) * 4))
         /\ ((Called("next") /\ proto = L4_UDP /\ position > ETH_HLEN
              /\ position = ETH_HLEN
                    + IPv4Ihl([pos |-> ETH_HLEN, rem |-> Len(buf) - ETH_HLEN]) * 4)
                => (ret'.proto = END /\ proto' = END)))
    ]_vars

\* C1 witness: the third next() of the traversal of a well-formed frame with
\* payload and padding has returned END.
C1_Witness ==
    /\ buf = Frame(<<L2_ETHERNET, L3_IPv4, L4_UDP>>, MaxPayload, MaxPad, 0, "ok")
    /\ ret.op = "next" /\ ret.proto = END
    /\ ret.pos0 = ETH_HLEN + IPV4_HLEN_MIN
    /\ position = ETH_HLEN + IPV4_HLEN_MIN + UDP_HLEN

\* C2: a next() called while the current protocol is END returns END, leaves
\* END current and leaves the cursor where it is.
C2_EndSticky ==
    [][(Called("next") /\ proto = END)
          => (ret'.proto = END /\ proto' = END
              /\ position' = position /\ remaining' = remaining)]_vars

\* C2 witness: next() has been called on a parser whose traversal had ended
\* (no header is 0 bytes long, so the cursor not having moved shows that the
\* call started in END).
C2_Witness ==
    /\ ret.op = "next" /\ ret.proto = END /\ proto = END
    /\ position > 0 /\ ret.pos0 = position

\* C3: parse(p) returns true exactly when p is one of the six protocols and
\* its validate succeeds at the cursor; then p is current, otherwise END is;
\* the cursor is where it was.
C3_ParseValidates ==
    [][Called("parse") =>
        LET valid == ModuleValid(ret'.arg, Cursor) IN
        /\ ret'.ok = valid
        /\ proto' = (IF valid THEN ret'.arg ELSE END)
        /\ position' = position /\ remaining' = remaining]_vars

\* C3 witness: parse(L3_IPv4) has failed although a whole IPv4 header fits.
C3_Witness ==
    /\ ret.op = "parse" /\ ret.arg = L3_IPv4 /\ ~ret.ok /\ proto = END
    /\ remaining >= IPV4_HLEN_MIN

\* C4: a next() called while a protocol p other than END is current moves the
\* cursor by p's header length and validates the protocol that p's header
\* announces there; it returns, and makes current, that protocol when it
\* validates and END when it does not or when END is announced.
C4_NextAdvancesAndValidates ==
    [][(Called("next") /\ proto # END) =>
        LET hl    == ModuleHeaderLength(proto, Cursor)
            cand  == ModuleNextProtocol(proto, Cursor)
            valid == ModuleValid(cand, Moved(Cursor, hl))
        IN  /\ position' = position + hl
            /\ remaining' = remaining - hl
            /\ ret'.proto = proto'
            /\ proto' = (IF valid THEN cand ELSE END)]_vars

\* C4 witness: next() has moved over an IPv4 header with options (24 bytes)
\* and made L4_UDP current.
C4_Witness ==
    /\ ret.op = "next" /\ ret.proto = L4_UDP /\ proto = L4_UDP
    /\ ret.pos0 = ETH_HLEN /\ position = ETH_HLEN + IPV4_HLEN_MIN + 4

\* A view that is empty, or lies inside the buffer.
InBuffer(ptr, len) ==
    IF ptr = NullPtr THEN len = 0
    ELSE ptr >= 0 /\ len >= 0 /\ ptr <= Len(buf) /\ len <= Len(buf) - ptr

\* C5: in every reachable state, over well-formed, malformed and truncated
\* buffers, the views that packet(), header() and payload() give, and every
\* view a call has returned, lie inside the buffer; while a protocol is
\* current its header and payload together end inside the buffer; and no
\* call has peeked at a byte past the buffer end.
C5_ViewsInsideBuffer ==
    /\ InBuffer(packet(Self).ptr, packet(Self).len)
    /\ InBuffer(header(Self).ptr, header(Self).len)
    /\ InBuffer(payload(Self).ptr, payload(Self).len)
    /\ ret.op \in {"packet", "header", "payload"} => InBuffer(ret.ptr, ret.len)
    /\ proto # END =>
          /\ header(Self).len <= Len(buf) - position
          /\ payload(Self).len <= Len(buf) - position - header(Self).len
    /\ ~pastEnd

\* C5 witness: payload() has been called at the IPv4 layer of a frame with a
\* wrongly set field, and has returned a view that is not empty.
C5_Witness ==
    /\ buf \in FaultyFrames \ SoundFrames
    /\ ret.op = "payload" /\ proto = L3_IPv4 /\ ret.len > 0

\* The length that the header of protocol p at the cursor declares for the
\* whole layer (IPv4 total length, UDP length).
DeclaredLength(p, cur) ==
    CASE p = L3_IPv4 -> IPv4TotalLength(cur)
      [] p = L4_UDP  -> UdpLength(cur)

\* The fixed header of p fits at the cursor, the length it declares does not.
DeclaredPastEnd(p, cur) ==
    /\ cur.rem >= FixedLen(p)
    /\ DeclaredLength(p, cur) > cur.rem

C7_ShortBufferRejected ==
    [][(Called("parse") /\ ret'.arg \in Protocols
        /\ remaining < FixedLen(ret'.arg))
          => (~ret'.ok /\ proto' = END)]_vars

\* C7 witness: parse(L2_ETHERNET) has failed on a fresh parser over a buffer
\* of 13 bytes.
C7_Witness ==
    /\ Len(buf) = ETH_HLEN - 1
    /\ ret.op = "parse" /\ ret.arg = L2_ETHERNET /\ ~ret.ok /\ proto = END
    /\ position = 0

\* C8: position + remaining is the buffer length and remaining is not
\* negative in every reachable state, and no step lowers the position.
C8_CursorInvariant ==
    /\ [](position + remaining = Len(buf) /\ remaining >= 0)
    /\ [][position' >= position]_vars

\* C8 witness: a traversal has moved the cursor to the very end of a buffer.
C8_Witness ==
    /\ ret.op = "next" /\ position > ret.pos0
    /\ position = Len(buf) /\ remaining = 0

\* C9: advance(length) fails exactly when length > remaining, and then the
\* cursor is as before; otherwise position grows and remaining shrinks by
\* length (so advance(remaining) succeeds and leaves nothing remaining).
C9_Advance ==
    [][Called("advance") =>
        /\ ret'.ok = ~(ret'.len > remaining)
        /\ IF ret'.len > remaining
           THEN position' = position /\ remaining' = remaining
           ELSE position' = position + ret'.len
                /\ remaining' = remaining - ret'.len]_vars

\* C9 witness: after successful advances, an advance by one byte more than
\* remains has failed.
C9_Witness ==
    /\ ret.op = "advance" /\ ~ret.ok
    /\ position > 0 /\ ret.pos0 = position
    /\ ret.len = remaining + 1

\* C10: a step that is not a next() leaves position and remaining as they
\* are (parse(), protocol(), packet(), header(), payload() and assign_stay,
\* whether they succeed or fail), and a step that moves the position is a
\* next() called while a protocol other than END is current.
C10_OnlyNextMovesCursor ==
    [][/\ ~Called("next") => (position' = position /\ remaining' = remaining)
       /\ position' # position => (Called("next") /\ proto # END)]_vars

\* C10 witness: an assign_stay of a header that does not fit has failed in
\* the middle of a buffer.
C10_Witness ==
    /\ ret.op = "assign_stay" /\ ~ret.ok /\ ret.ptr = NullPtr
    /\ position > 0 /\ remaining > 0 /\ ret.pos0 = position

(***************************************************************************)
(* Claims about the views of the current layer.                            *)
(***************************************************************************)
\* The bytes that follow the layer of protocol p at the cursor: what remains
\* after the length its header declares (IPv4, UDP); a layer without a
\* length field runs to the end of the buffer.
TrailingPadding(p, cur) ==
    IF p \in {L3_IPv4, L4_UDP} THEN cur.rem - DeclaredLength(p, cur) ELSE 0

\* The well-formed Ethernet/IPv4/UDP frames that end in padding.
PaddedFrames ==
    {Frame(<<L2_ETHERNET, L3_IPv4, L4_UDP>>, P, MaxPad, 0, "ok") :
        P \in 0..MaxPayload}

Answer(op) ==
    CASE op = "protocol" -> [proto |-> protocol(Self), ptr |-> NullPtr, len |-> 0]
      [] op = "packet"   ->
            [proto |-> END, ptr |-> packet(Self).ptr, len |-> packet(Self).len]
      [] op = "header"   ->
            [proto |-> END, ptr |-> header(Self).ptr, len |-> header(Self).len]
      [] op = "payload"  ->
            [proto |-> END, ptr |-> payload(Self).ptr, len |-> payload(Self).len]

Accessors == {"protocol", "packet", "header", "payload"}

\* C12: a call of protocol(), packet(), header() or payload() leaves the
\* buffer, the cursor and the current protocol as they are, returns what the
\* state it ends in gives for the same call again, and, when the call before
\* it was the same accessor, returns what that call returned.
C12_AccessorsIdempotent ==
    [][\A op \in Accessors :
          Called(op) =>
              /\ UNCHANGED <<buf, position, remaining, proto>>
              /\ [proto |-> ret'.proto, ptr |-> ret'.ptr, len |-> ret'.len]
                    = Answer(op)'
              /\ (ret.op = op) => (ret' = ret)]_vars

\* C12 witness: payload() has been called at the UDP layer of a well-formed
\* frame after the three steps that lead there, and the state it left gives
\* the same view again.
C12_Witness ==
    /\ buf \in EthIpUdpFrames
    /\ ret.op = "payload" /\ proto = L4_UDP
    /\ ret.pos0 = position /\ position > ETH_HLEN
    /\ ret.ptr = payload(Self).ptr /\ ret.len = payload(Self).len

\* The header of protocol p at the cursor announces no protocol that has a
\* decoder: it is an innermost layer, or its next-protocol field holds a
\* value that no module decodes.
TerminalNext(p, cur) ==
    \/ p \in {L4_UDP, L4_SCTP}
    \/ p = L3_IPv4 /\ U8At(cur, 9) \notin {IPPROTO_UDP, IPPROTO_GRE, IPPROTO_SCTP}
    \/ p = L2_ETHERNET /\ U16At(cur, 12) \notin {ETHERTYPE_IPV4, ETHERTYPE_VLAN}
    \/ p = L2_VLAN /\ U16At(cur, 2) \notin {ETHERTYPE_IPV4, ETHERTYPE_VLAN}
    \/ p = L4_GRE /\ U16At(cur, 2) # ETHERTYPE_IPV4

\* C14: when next() is called at a validated layer whose header announces
\* no decodable protocol (an IPv4 protocol number, an ethertype without a
\* decoder; UDP or SCTP as the innermost layer), the module's next protocol
\* is END, next() returns END and END becomes the current protocol: the
\* result that a next() whose announced layer fails validation gives.
C14_TerminalNextIsEnd ==
    [][(Called("next") /\ proto # END /\ TerminalNext(proto, Cursor))
          => /\ ModuleNextProtocol(proto, Cursor) = END
             /\ ret'.proto = END /\ ret'.ok
             /\ proto' = END
             /\ protocol(Self)' = END]_vars

\* C14 witness: over a frame whose valid IPv4 header carries the protocol
\* number of TCP, next() at the IPv4 layer has stepped over the header and
\* returned END.
C14_Witness ==
    /\ buf \in FaultyFrames
    /\ Len(buf) > ETH_HLEN + IPV4_HLEN_MIN
    /\ U8At([pos |-> ETH_HLEN, rem |-> Len(buf) - ETH_HLEN], 9) = IPPROTO_TCP
    /\ ret.op = "next" /\ ret.pos0 = ETH_HLEN /\ ret.proto = END
    /\ position = ETH_HLEN + IPV4_HLEN_MIN /\ proto = END

\* The smallest well-formed Ethernet/IPv4/UDP frames: no IPv4 options, no
\* UDP payload (the UDP length field holds 8), unpadded and padded.
MinimalUdpFrames ==
    {Frame(<<L2_ETHERNET, L3_IPv4, L4_UDP>>, 0, pad, 0, "ok") : pad \in {0, MaxPad}}

\* C15: over a minimal Ethernet/IPv4/UDP frame whose UDP length is the UDP
\* header size, next() at the IPv4 layer returns L4_UDP and makes it current,
\* and payload() at the UDP layer returns a view of length 0 that starts at
\* the UDP header's offset plus 8, not a null one.
C15_EmptyUdpPayload ==
    [][(buf \in MinimalUdpFrames) =>
          (/\ ((Called("next") /\ proto = L3_IPv4 /\ position = ETH_HLEN)
                => (ret'.proto = L4_UDP /\ proto' = L4_UDP
                    /\ UdpLength(Cursor') = UDP_HLEN))
           /\ ((Called("payload") /\ proto = L4_UDP
                   /\ position = ETH_HLEN + IPV4_HLEN_MIN)
                => (ret'.len = 0
                    /\ ret'.ptr = position + UDP_HLEN
                    /\ ret'.ptr = header(Self).ptr + header(Self).len
                    /\ ret'.ptr # NullPtr /\ ret'.ptr <= Len(buf))))]_vars

\* C15 witness: payload() has been called at the UDP layer of a minimal
\* frame and has returned the empty view at offset 42.
C15_Witness ==
    /\ buf \in MinimalUdpFrames
    /\ proto = L4_UDP /\ position = ETH_HLEN + IPV4_HLEN_MIN
    /\ UdpLength(Cursor) = UDP_HLEN
    /\ ret.op = "payload" /\ ret.len = 0
    /\ ret.ptr = ETH_HLEN + IPV4_HLEN_MIN + UDP_HLEN

(***************************************************************************)
(* Claims about a traversal.                                               *)
(***************************************************************************)
\* C13 as stated: after parse(), END is reached by six next() calls at most.
C13_SixCallsReachEnd == walk.nexts >= 6 => proto = END

\* C13 (amended): after parse() at any position with any first protocol,
\* every next() from a protocol other than END moves the cursor on by at
\* least the smallest header (4 bytes), so the calls made, and one more
\* while a protocol is still current, fit four bytes each between the
\* position of parse() and the buffer end; over a well-formed frame parsed
\* as Ethernet from its start, END is returned by exactly the call whose
\* number is the number of layers of the frame, whatever that number is.
C13_WalkTerminates ==
    /\ [](/\ walk.nexts * VLAN_HLEN <= position - walk.start
          /\ proto # END
                => (walk.nexts + 1) * VLAN_HLEN <= Len(buf) - walk.start
          /\ (buf \in WalkFrames /\ walk.start = 0 /\ walk.first = L2_ETHERNET)
                => /\ walk.nexts <= Layers[buf]
                   /\ (proto = END) <=> (walk.nexts = Layers[buf]))
    /\ [][Called("next") =>
              /\ position' >= position + VLAN_HLEN
              /\ remaining' <= remaining - VLAN_HLEN]_vars

\* C13 witness: the seventh next() after parse() has returned END at the
\* end of a well-formed Ethernet/IPv4/GRE/IPv4/GRE/IPv4/UDP frame.
C13_Witness ==
    /\ buf \in FramesOf(<<L2_ETHERNET, L3_IPv4>> \o Tunnels(2) \o <<L4_UDP>>)
    /\ walk = [start |-> 0, first |-> L2_ETHERNET, nexts |-> 7]
    /\ ret.op = "next" /\ ret.proto = END /\ proto = END
    /\ remaining <= MaxPayload + MaxPad

RECURSIVE Backward(_, _, _)
Backward(h, p, k) ==
    IF p = NullPtr \/ k = 0 THEN <<>>
    ELSE <<p>> \o Backward(h, h.il_prev[p], k - 1)

\* The elements of list l in order: the traversal from begin() to end().
Order(h, l) == Forward(h, h.head[l], MaxNodes + 1)

\* The step just taken is a call of op on list l.
ListCalled(op, l) == lret'.op = op /\ lret'.list = l

\* C17: push_front(node) and push_back(node) with node.il_linked false
\* return true, mark the node linked and make it the first, respectively the
\* last, element, the others keeping their order, with size() one more; with
\* the node already linked they return false and nothing changes: size()
\* and the order of the elements are as before.
C17_PushLinksOnce ==
    [][\A l \in TestLists :
        (ListCalled("push_front", l) \/ ListCalled("push_back", l)) =>
            IF ~heap.il_linked[lret'.value]
            THEN /\ lret'.ok
                 /\ heap'.il_linked[lret'.value]
                 /\ Order(heap', l) =
                        IF lret'.op = "push_front"
                        THEN <<lret'.value>> \o Order(heap, l)
                        ELSE Order(heap, l) \o <<lret'.value>>
                 /\ heap'.list_size[l] = heap.list_size[l] + 1
            ELSE /\ ~lret'.ok
                 /\ heap' = heap]_vars

\* C17 witness: push_back of the node at the head of a list of two has
\* returned false.
C17_Witness ==
    /\ lret.op = "push_back" /\ ~lret.ok
    /\ heap.head[1] = lret.value
    /\ heap.list_size[1] = 2 /\ Len(Order(heap, 1)) = 2

\* All of a sequence but its last element.
Front(q) == SubSeq(q, 1, Len(q) - 1)

\* C18: the list is a deque of its nodes.  push_back of an unlinked node
\* appends it and push_front puts it first; pop_front() returns the first
\* element and pop_back() the last, unlinked (il_linked false, il_next and
\* il_prev null), and leaves the others in their order with size() one
\* less: what push_back added comes out of pop_front, and what push_front
\* added out of pop_back, in the order added.  On an empty list both return
\* nullptr and change nothing.
C18_OrderedDeque ==
    [][\A l \in TestLists :
        LET before == Order(heap, l)
            after  == Order(heap', l)
            out    == lret'.out
        IN  /\ (ListCalled("push_back", l) /\ lret'.ok)
                  => (after = before \o <<lret'.value>>)
            /\ (ListCalled("push_front", l) /\ lret'.ok)
                  => (after = <<lret'.value>> \o before)
            /\ (ListCalled("pop_front", l) /\ before # <<>>)
                  => (out = Head(before) /\ after = Tail(before))
            /\ (ListCalled("pop_back", l) /\ before # <<>>)
                  => (out = before[Len(before)] /\ after = Front(before))
            /\ ((ListCalled("pop_front", l) \/ ListCalled("pop_back", l))
                  /\ before # <<>>)
                  => (/\ out = (IF lret'.op = "pop_front" THEN heap.head[l]
                                ELSE heap.tail[l])
                      /\ ~heap'.il_linked[out]
                      /\ heap'.il_next[out] = NullPtr
                      /\ heap'.il_prev[out] = NullPtr
                      /\ heap'.list_size[l] = heap.list_size[l] - 1)
            /\ ((ListCalled("pop_front", l) \/ ListCalled("pop_back", l))
                  /\ before = <<>>)
                  => (out = NullPtr /\ heap' = heap)]_vars

\* C18 witness: pop_front() on the list of the nodes 1, 2, 3 has returned
\* node 1 and left 2, 3.
C18_Witness ==
    /\ lret.op = "pop_front" /\ lret.out = 1
    /\ Order(heap, 1) = <<2, 3>>
    /\ ~heap.il_linked[1] /\ heap.list_size[1] = 2

\* The nodes of a sequence.
Range(q) == {q[k] : k \in 1..Len(q)}

\* A sequence without the node n.
Without(q, n) == SelectSeq(q, LAMBDA m : m # n)

\* The first and the last node of a sequence, NullPtr when it is empty.
FirstOf(q) == IF q = <<>> THEN NullPtr ELSE q[1]
LastOf(q) == IF q = <<>> THEN NullPtr ELSE q[Len(q)]

\* C19: remove(node) on a node linked in the list, be it the head, the tail
\* or an interior node, returns true, unlinks that node (il_linked false,
\* il_next and il_prev null) and no other, makes size() one less and leaves
\* the remaining nodes in their order, head and tail being its first and
\* last; remove(node) on a node that is not linked returns false and changes
\* nothing; and whenever size() is 0, in whatever order the nodes were
\* removed, no node is linked and head and tail are null.
C19_RemoveUnlinksOne ==
    /\ [](\A l \in TestLists :
            heap.list_size[l] = 0 =>
                /\ \A n \in Nodes : ~heap.il_linked[n]
                /\ heap.head[l] = NullPtr /\ heap.tail[l] = NullPtr)
    /\ [][\A l \in TestLists :
            ListCalled("remove", l) =>
                LET v      == lret'.value
                    before == Order(heap, l)
                    after  == Order(heap', l)
                IN  /\ (v \in Range(before)) =>
                        (/\ lret'.ok
                         /\ ~heap'.il_linked[v]
                         /\ heap'.il_next[v] = NullPtr
                         /\ heap'.il_prev[v] = NullPtr
                         /\ \A n \in Nodes \ {v} :
                               heap'.il_linked[n] = heap.il_linked[n]
                         /\ heap'.list_size[l] = heap.list_size[l] - 1
                         /\ after = Without(before, v)
                         /\ heap'.head[l] = FirstOf(after)
                         /\ heap'.tail[l] = LastOf(after)
                         /\ ~heap'.ub)
                    /\ (~heap.il_linked[v]) => (~lret'.ok /\ heap' = heap)]_vars

\* C19 witness: remove() of the interior node of the list 1, 2, 3 has
\* returned true and left 1, 3.
C19_Witness ==
    /\ lret.op = "remove" /\ lret.value = 2 /\ lret.ok
    /\ Order(heap, 1) = <<1, 3>>
    /\ heap.il_next[1] = 3 /\ heap.il_prev[3] = 1
    /\ ~heap.il_linked[2] /\ heap.list_size[1] = 2

\* The place of the node n in a sequence that holds it.
IndexOf(q, n) == CHOOSE k \in 1..Len(q) : q[k] = n

\* A sequence with the node n put at place k.
InsertAt(q, k, n) == SubSeq(q, 1, k - 1) \o <<n>> \o SubSeq(q, k, Len(q))

\* C20: insert_before(b, v) with b linked in the list and v not linked
\* returns true and puts v immediately before b, v becoming the head when b
\* was the head; insert_after(a, v) returns true and puts v immediately
\* after a, v becoming the tail when a was the tail; the other nodes keep
\* their order, size() is one more, and the links read the same backwards.
\* Both return false and change nothing when b, respectively a, is not
\* linked or v is linked already.
C20_InsertAtPosition ==
    [][\A l \in TestLists :
        (ListCalled("insert_before", l) \/ ListCalled("insert_after", l)) =>
            LET v      == lret'.value
                at     == lret'.at
                before == Order(heap, l)
                after  == Order(heap', l)
            IN  IF at \in Range(before) /\ ~heap.il_linked[v]
                THEN /\ lret'.ok
                     /\ heap'.il_linked[v]
                     /\ after = InsertAt(before,
                                    IF lret'.op = "insert_before"
                                    THEN IndexOf(before, at)
                                    ELSE IndexOf(before, at) + 1, v)
                     /\ (lret'.op = "insert_before")
                           => (heap'.il_next[v] = at /\ heap'.il_prev[at] = v)
                     /\ (lret'.op = "insert_after")
                           => (heap'.il_prev[v] = at /\ heap'.il_next[at] = v)
                     /\ (lret'.op = "insert_before" /\ heap.head[l] = at)
                           => (heap'.head[l] = v)
                     /\ (lret'.op = "insert_after" /\ heap.tail[l] = at)
                           => (heap'.tail[l] = v)
                     /\ heap'.head[l] = FirstOf(after)
                     /\ heap'.tail[l] = LastOf(after)
                     /\ Backward(heap', heap'.tail[l], MaxNodes + 1)
                           = [k \in 1..Len(after) |-> after[Len(after) + 1 - k]]
                     /\ heap'.list_size[l] = heap.list_size[l] + 1
                     /\ ~heap'.ub
                ELSE (~heap.il_linked[at] \/ heap.il_linked[v])
                        => (~lret'.ok /\ heap' = heap)]_vars

\* C20 witness: insert_before(b, v) with b the head of the list 1, 2 has made
\* node 3 the head of 3, 1, 2.
C20_Witness ==
    /\ lret.op = "insert_before" /\ lret.at = 1 /\ lret.value = 3 /\ lret.ok
    /\ Order(heap, 1) = <<3, 1, 2>>
    /\ heap.head[1] = 3 /\ heap.il_prev[1] = 3

\* C21: reset() ends after one pop_front per element and leaves the list
\* empty: size() is 0, head and tail are null, every node that was in the
\* list has il_linked false and null il_next and il_prev, the nodes outside
\* the list are untouched, and each node that was in the list passes
\* sanity_check again, so that push_front and push_back accept it.
C21_ResetEmpties ==
    [][\A l \in TestLists :
        ((ListCalled("reset", l)) =>
            (LET before == Order(heap, l) IN
             /\ lret'.ok
             /\ lret'.out = Len(before)
             /\ heap'.list_size[l] = 0
             /\ heap'.head[l] = NullPtr /\ heap'.tail[l] = NullPtr
             /\ Order(heap', l) = <<>>
             /\ \A n \in Range(before) :
                    /\ ~heap'.il_linked[n]
                    /\ heap'.il_next[n] = NullPtr
                    /\ heap'.il_prev[n] = NullPtr
                    /\ sanity_check(heap', n)
                    /\ push_front(heap', l, n).result
                    /\ push_back(heap', l, n).result
             /\ \A n \in Nodes \ Range(before) :
                    /\ heap'.il_linked[n] = heap.il_linked[n]
                    /\ heap'.il_next[n] = heap.il_next[n]
                    /\ heap'.il_prev[n] = heap.il_prev[n]
             /\ ~heap'.ub))]_vars

\* C21 witness: reset() has emptied a list of MaxNodes nodes.
C21_Witness ==
    /\ lret.op = "reset" /\ lret.ok /\ lret.out = MaxNodes
    /\ heap.list_size[1] = 0 /\ heap.head[1] = NullPtr
    /\ \A n \in Nodes : ~heap.il_linked[n]

\* C22: move construction and move assignment hand the whole sequence over:
\* the destination has the head, the tail and the size() the source had and
\* so the source's nodes in the same order, the source is left with size()
\* 0 and neither head nor tail, and no node's hook is written; move
\* assignment of a list to itself changes nothing.
C22_MoveTransfers ==
    [][\A l \in Lists, rv \in Lists :
        (((ListCalled("move_construct", l) \/ ListCalled("move_assign", l))
            /\ lret'.at = rv) =>
            (IF l = rv
             THEN heap' = heap
             ELSE /\ Order(heap', l) = Order(heap, rv)
                  /\ heap'.list_size[l] = heap.list_size[rv]
                  /\ heap'.head[l] = heap.head[rv]
                  /\ heap'.tail[l] = heap.tail[rv]
                  /\ heap'.list_size[rv] = 0
                  /\ heap'.head[rv] = NullPtr /\ heap'.tail[rv] = NullPtr
                  /\ Order(heap', rv) = <<>>
                  /\ heap'.il_next = heap.il_next
                  /\ heap'.il_prev = heap.il_prev
                  /\ heap'.il_linked = heap.il_linked
                  /\ ~heap'.ub))]_vars

\* C22 witness: list 2 has been move-assigned the list 1, 2, 3 of list 1.
C22_Witness ==
    /\ lret.op = "move_assign" /\ lret.list = 2 /\ lret.at = 1
    /\ Order(heap, 2) = <<1, 2, 3>> /\ heap.list_size[2] = MaxNodes
    /\ heap.head[1] = NullPtr /\ heap.list_size[1] = 0

\* The step just taken is a call of op on the HashMap.
HashMapCalled(op) == hret'.op = op

\* The nodes an iterator at it and its successors by Iterator::next(key)
\* point to, up to the null iterator, k of them at most.
RECURSIVE Visits(_, _, _, _)
Visits(h, it, key, k) ==
    IF it = NullPtr \/ k = 0 THEN <<>>
    ELSE <<it>> \o Visits(h, Iterator_next(h, it, key), key, k - 1)

\* The nodes find(key) and then Iterator::next(key) give.
KeyVisits(h, key) == Visits(h, HashMap_find(h, key), key, MaxMapNodes + 1)

\* The nodes linked under key, the one linked last first.
LinkedUnder(h, key) == SelectSeq(h.linked, LAMBDA n : h.im_key[n] = key)

\* The nodes of bucket b from its head on.
RECURSIVE BucketChain(_, _, _)
BucketChain(h, p, k) ==
    IF p = NullPtr \/ k = 0 THEN <<>>
    ELSE <<p>> \o BucketChain(h, h.im_next[p], k - 1)

BucketNodes(h, b) == BucketChain(h, h.head[b], MaxMapNodes + 1)

\* The sum of f[b] over the buckets below n.
RECURSIVE SumBelow(_, _)
SumBelow(f, n) == IF n = 0 THEN 0 ELSE f[n - 1] + SumBelow(f, n - 1)

\* C23: the map holds several nodes under one key.  link(k, n) of a free
\* node n links it under k whether or not k is present, and returns the
\* iterator at n; for every key k, find(k) followed by Iterator::next(k)
\* up to the null iterator gives exactly the nodes linked under k, the one
\* linked last first (so find(k) is null exactly when no node is linked
\* under k), and find and next return what this says.
C23_ManyNodesPerKey ==
    /\ [](hmap.bucket_list =>
            \A k \in Keys : KeyVisits(hmap, k) = LinkedUnder(hmap, k))
    /\ [][/\ \A k \in Keys, n \in MapNodes :
                ((HashMapCalled("link") /\ hret'.key = k /\ hret'.node = n
                     /\ hmap.bucket_list /\ ~hmap.im_linked[n]) =>
                    (/\ hmap'.im_linked[n] /\ hmap'.im_key[n] = k
                     /\ hret'.it = n
                     /\ HashMap_find(hmap', k) = n
                     /\ LinkedUnder(hmap', k) = <<n>> \o LinkedUnder(hmap, k)
                     /\ HashMap_size(hmap') = HashMap_size(hmap) + 1
                     /\ ~hmap'.ub /\ ~hmap'.aborted))
          /\ \A k \in Keys :
                ((HashMapCalled("find") /\ hret'.key = k /\ hmap.bucket_list) =>
                    (/\ (hret'.it = NullPtr) = (LinkedUnder(hmap, k) = <<>>)
                     /\ (hret'.it # NullPtr) => (hret'.it = LinkedUnder(hmap, k)[1])))
          /\ \A k \in Keys :
                ((HashMapCalled("next") /\ hret'.key = k) =>
                    (\/ hret'.it = NullPtr
                     \/ /\ hmap.im_linked[hret'.it]
                        /\ hmap.im_key[hret'.it] = k
                        /\ hret'.it # hret'.node))
       ]_vars

\* C23 witness: three nodes linked into one bucket under the keys 0, 2, 0;
\* from the node linked last, Iterator::next(0) has stepped over the node of
\* key 2 to the other node of key 0.
C23_Witness ==
    /\ hret.op = "next" /\ hret.key = 0 /\ hret.node = 3 /\ hret.it = 1
    /\ hmap.linked = <<3, 2, 1>>
    /\ hmap.im_key = <<0, 2, 0>>
    /\ HashMap_find(hmap, 0) = 3
    /\ Iterator_next(hmap, 1, 0) = NullPtr

\* C24: remove(node) of a linked node unlinks that node and no other,
\* wherever it is in its bucket's chain: its im_linked is false and its
\* im_next null; every other node keeps its im_linked and im_key, and for
\* every key find and Iterator::next give the nodes they gave before,
\* without the removed one; the node's bucket and the map are one smaller.
C24_RemoveUnlinksThatNode ==
    [][\A node \in MapNodes :
        ((HashMapCalled("remove") /\ hret'.node = node
             /\ hmap.bucket_list /\ hmap.im_linked[node]) =>
            (LET b == hasher(hmap.im_key[node]) % HashMap_buckets(hmap) IN
             /\ ~hmap'.im_linked[node]
             /\ hmap'.im_next[node] = NullPtr
             /\ \A m \in MapNodes \ {node} :
                    /\ hmap'.im_linked[m] = hmap.im_linked[m]
                    /\ hmap'.im_key[m] = hmap.im_key[m]
             /\ \A k \in Keys :
                    KeyVisits(hmap', k)
                        = SelectSeq(KeyVisits(hmap, k), LAMBDA m : m # node)
             /\ \A c \in BucketIds :
                    /\ BucketNodes(hmap', c)
                         = SelectSeq(BucketNodes(hmap, c), LAMBDA m : m # node)
                    /\ hmap'.size[c] = hmap.size[c] - (IF c = b THEN 1 ELSE 0)
             /\ HashMap_size(hmap') = HashMap_size(hmap) - 1
             /\ ~hmap'.ub /\ ~hmap'.aborted))]_vars

\* C24 witness: of three nodes in one bucket, with keys 0, 2, 0, the middle
\* one (key 2, found behind node 3 by find_prev) has been removed; the two
\* of key 0 are still linked and found.
C24_Witness ==
    /\ hret.op = "remove" /\ hret.node = 2 /\ hret.out = 3
    /\ ~hmap.im_linked[2] /\ hmap.im_key = <<0, 2, 0>>
    /\ BucketNodes(hmap, 0) = <<3, 1>>
    /\ KeyVisits(hmap, 0) = <<3, 1>>

\* C25: on an allocated map size() is the number of linked nodes, the sum
\* of the bucket sizes and the number of nodes reached from the bucket
\* heads; each bucket's size is the length of its chain; every node in
\* bucket i is linked and has hasher(im_key) % buckets() = i; no node is in
\* two chains or twice in one; and clear() leaves size() 0, every bucket
\* empty and every node unlinked with null im_next.
C25_SizeCountsLinked ==
    /\ [](hmap.bucket_list =>
            /\ HashMap_size(hmap) = Cardinality({n \in MapNodes : hmap.im_linked[n]})
            /\ HashMap_size(hmap) = SumBelow(hmap.size, HashMap_buckets(hmap))
            /\ \A b \in BucketIds :
                  /\ hmap.size[b] = Len(BucketNodes(hmap, b))
                  /\ \A i \in 1..Len(BucketNodes(hmap, b)) :
                        LET n == BucketNodes(hmap, b)[i] IN
                        /\ hmap.im_linked[n]
                        /\ hasher(hmap.im_key[n]) % HashMap_buckets(hmap) = b
                        /\ \A j \in 1..Len(BucketNodes(hmap, b)) :
                              (BucketNodes(hmap, b)[j] = n) => (j = i)
            /\ \A n \in MapNodes :
                  hmap.im_linked[n] =>
                      (\E i \in 1..Len(BucketNodes(hmap,
                              hasher(hmap.im_key[n]) % HashMap_buckets(hmap))) :
                          BucketNodes(hmap,
                              hasher(hmap.im_key[n]) % HashMap_buckets(hmap))[i] = n))
    /\ [][((HashMapCalled("clear") /\ hmap.bucket_list) =>
              (/\ HashMap_size(hmap') = 0
               /\ \A b \in BucketIds : hmap'.head[b] = NullPtr /\ hmap'.size[b] = 0
               /\ \A n \in MapNodes :
                     ~hmap'.im_linked[n] /\ hmap'.im_next[n] = NullPtr
               /\ ~hmap'.ub /\ ~hmap'.aborted))
          /\ ((HashMapCalled("size")) => (hret'.out = HashMap_size(hmap)))
       ]_vars

\* C25 witness: clear() has emptied a map that held MaxMapNodes nodes in
\* both buckets.
C25_Witness ==
    /\ hret.op = "clear" /\ hmap.bucket_list
    /\ hmap.elements = 0
    /\ \A n \in MapNodes : ~hmap.im_linked[n]
    /\ hmap.im_key = <<0, 1, 2>>

\* C26: a newly constructed parser has protocol() END; whenever protocol()
\* is END, header() and payload() are the empty view (null pointer, length
\* 0) and are returned as such, while packet() is the view from the cursor
\* to the end of the buffer, which need not be empty.
C26_EndViewsEmpty ==
    /\ (ret.op = "new") => (protocol(Self) = END)
    /\ (protocol(Self) = END) =>
          /\ header(Self).ptr = NullPtr /\ header(Self).len = 0
          /\ payload(Self).ptr = NullPtr /\ payload(Self).len = 0
          /\ packet(Self).ptr = position
          /\ packet(Self).len = Len(buf) - position
          /\ (ret.op \in {"header", "payload"}) =>
                (ret.ptr = NullPtr /\ ret.len = 0)
          /\ (ret.op = "packet") =>
                (ret.ptr = position /\ ret.len = Len(buf) - position)

\* C26 witness: a traversal has ended in END inside the buffer, with bytes
\* left behind the cursor; header() has returned the empty view there.
C26_Witness ==
    /\ proto = END /\ position > 0 /\ remaining > 0
    /\ ret.op = "header" /\ ret.ptr = NullPtr /\ ret.len = 0
    /\ packet(Self).len > 0

\* C27: parse(p) never rewinds or resets the cursor: position and remaining
\* are as before, and p is validated at the current position, so parse(p)
\* returns true and sets protocol() to p exactly when the bytes at the
\* cursor validate as p, whatever protocol() was, END included; otherwise it
\* returns false and sets END.  Only next() keeps a parser in END: called
\* with protocol() END it leaves protocol() END and the cursor in place.
C27_ParseResumesAtCursor ==
    [][/\ \A p \in Protocols :
            ((Called("parse") /\ ret'.arg = p) =>
                (/\ position' = position /\ remaining' = remaining
                 /\ ret'.ok = ModuleValid(p, Cursor)
                 /\ proto' = (IF ModuleValid(p, Cursor) THEN p ELSE END)
                 /\ (proto = END /\ ModuleValid(p, Cursor)) => (proto' # END)))
       /\ ((Called("next") /\ proto = END) =>
                (proto' = END /\ position' = position /\ remaining' = remaining))
      ]_vars

\* C27 witness: with protocol() END and the cursor inside the buffer,
\* parse(p) has succeeded with a protocol that does not validate at offset
\* 0, leaving END without moving the cursor.
C27_Witness ==
    /\ ret.op = "parse" /\ ret.ok /\ ~ret.live
    /\ ret.pos0 > 0 /\ position = ret.pos0
    /\ proto = ret.arg /\ proto # END
    /\ ~ModuleValid(ret.arg, [pos |-> 0, rem |-> Len(buf)])

\* C28: after any sequence of push_front, push_back, pop_front, pop_back,
\* insert_before, insert_after, remove and reset on one list and its own
\* nodes, size() is the number of nodes reached from head through il_next,
\* the nodes reached from tail through il_prev are the same in reverse
\* order, the il_prev of head and the il_next of tail are null, head and
\* tail are both null exactly when size() is 0, and no node occurs twice.
C28_ListWellFormed ==
    \A l \in TestLists :
        LET fwd == Order(heap, l)
            bwd == Backward(heap, heap.tail[l], MaxNodes + 1)
        IN  /\ heap.list_size[l] = Len(fwd)
            /\ Len(bwd) = Len(fwd)
            /\ \A k \in 1..Len(fwd) : bwd[k] = fwd[Len(fwd) + 1 - k]
            /\ (heap.head[l] # NullPtr) => (heap.il_prev[heap.head[l]] = NullPtr)
            /\ (heap.tail[l] # NullPtr) => (heap.il_next[heap.tail[l]] = NullPtr)
            /\ (heap.head[l] = NullPtr) = (heap.list_size[l] = 0)
            /\ (heap.tail[l] = NullPtr) = (heap.list_size[l] = 0)
            /\ \A i, j \in 1..Len(fwd) : (fwd[i] = fwd[j]) => (i = j)
            /\ ~heap.ub

\* C28 witness: the list 3, 1 left by removing the middle node of a list of
\* three.
C28_Witness ==
    /\ lret.op = "remove" /\ lret.ok /\ lret.value = 2
    /\ Order(heap, 1) = <<3, 1>>
    /\ Backward(heap, heap.tail[1], MaxNodes + 1) = <<1, 3>>
    /\ heap.list_size[1] = 2

\* C29: with two lists over one pool of nodes, in every state reached
\* without undefined behaviour, whatever members were called, move
\* assignment into a non-empty list and remove() on the other list
\* included, a node has il_linked true exactly when it is reached from the
\* head of one of the lists, and each list's size() is the number of nodes
\* reached from its head.
C29_LinkedIffReachable ==
    (~heap.ub) =>
        /\ \A n \in Nodes :
              heap.il_linked[n] = (\E l \in Lists : n \in Range(Order(heap, l)))
        /\ \A l \in Lists : heap.list_size[l] = Len(Order(heap, l))

\* C29 witness: list 1 held node 1 when the empty list 2 was move-assigned
\* to it; node 1 is still marked linked, no list reaches it, and no push
\* accepts it any more.
C29_Witness ==
    /\ lret.op = "move_assign" /\ lret.list = 1 /\ lret.at = 2
    /\ ~heap.ub
    /\ heap.il_linked[1]
    /\ heap.head[1] = NullPtr /\ heap.head[2] = NullPtr
    /\ heap.list_size[1] = 0
    /\ ~push_back(heap, 1, 1).result

\* The step just taken is a call of op on the IntrusiveMap.
MapCalled(op) == iret'.op = op

\* The linked nodes whose key is key.
NodesOfKey(m, key) == {n \in MapNodes : m.im_linked[n] /\ m.im_key[n] = key}

\* C30: keys are unique.  put(key, value) returns true and links value
\* under key (value is then what find(key) gives, size() is one more, no
\* other node changes) exactly when value is not linked and no linked node
\* has that key; otherwise it returns false and the map, its size() and the
\* hook of value are as before.  So in every state each key has at most one
\* linked node, find(key) is the value last put with success under key and
\* not removed since (null when there is none), and size() is the number of
\* linked nodes.
C30_KeysUnique ==
    /\ [](/\ \A k \in Keys :
                /\ Cardinality(NodesOfKey(imap, k)) <= 1
                /\ IntrusiveMap_find(imap, k) = imap.last[k]
                /\ (imap.last[k] # NullPtr) => (NodesOfKey(imap, k) = {imap.last[k]})
                /\ (imap.last[k] = NullPtr) => (NodesOfKey(imap, k) = {})
          /\ IntrusiveMap_size(imap)
                = Cardinality({n \in MapNodes : imap.im_linked[n]})
          /\ ~imap.ub)
    /\ [][\A k \in Keys, v \in MapNodes :
            ((MapCalled("put") /\ iret'.key = k /\ iret'.value = v) =>
                (IF ~imap.im_linked[v] /\ NodesOfKey(imap, k) = {}
                 THEN /\ iret'.ok
                      /\ imap'.im_linked[v] /\ imap'.im_key[v] = k
                      /\ IntrusiveMap_find(imap', k) = v
                      /\ IntrusiveMap_size(imap') = IntrusiveMap_size(imap) + 1
                      /\ \A n \in MapNodes \ {v} :
                            /\ imap'.im_linked[n] = imap.im_linked[n]
                            /\ imap'.im_key[n] = imap.im_key[n]
                            /\ imap'.im_next[n] = imap.im_next[n]
                 ELSE /\ ~iret'.ok
                      /\ imap' = imap))]_vars

\* C30 witness: put(2, node 2) has been refused because node 1 holds key
\* 2: the map holds node 1 under key 2 alone, and node 2 is still free.
C30_Witness ==
    /\ iret.op = "put" /\ ~iret.ok /\ iret.key = 2 /\ iret.value = 2
    /\ imap.last[2] = 1 /\ IntrusiveMap_find(imap, 2) = 1
    /\ ~imap.im_linked[2]
    /\ IntrusiveMap_size(imap) = 1

\* C31: remove(key) returns true exactly when a linked node has that key.
\* It then unlinks that node and no other, whether or not it is the first
\* of its bucket's chain: the node's im_linked is false and its im_next
\* null, every other node keeps its hook's im_linked and im_key, size() and
\* the bucket's size are one less, find(key) is null, and find of every
\* other key, the keys of the same bucket included, gives what it gave
\* before.  When no linked node has the key it returns false and the map is
\* as before.
C31_RemoveByKey ==
    [][\A k \in Keys :
        ((MapCalled("remove") /\ iret'.key = k) =>
            (LET n == IntrusiveMap_find(imap, k)
                 b == k % imap.bucket_list_size
             IN  /\ iret'.ok = (NodesOfKey(imap, k) # {})
                 /\ IF NodesOfKey(imap, k) # {}
                    THEN /\ NodesOfKey(imap, k) = {n}
                         /\ ~imap'.im_linked[n]
                         /\ imap'.im_next[n] = NullPtr
                         /\ \A o \in MapNodes \ {n} :
                               /\ imap'.im_linked[o] = imap.im_linked[o]
                               /\ imap'.im_key[o] = imap.im_key[o]
                         /\ IntrusiveMap_size(imap') = IntrusiveMap_size(imap) - 1
                         /\ \A c \in BucketIds :
                               imap'.size[c] = imap.size[c] - (IF c = b THEN 1 ELSE 0)
                         /\ IntrusiveMap_find(imap', k) = NullPtr
                         /\ \A k2 \in Keys \ {k} :
                               IntrusiveMap_find(imap', k2) = IntrusiveMap_find(imap, k2)
                         /\ ~imap'.ub
                    ELSE imap' = imap))]_vars

\* C31 witness: keys 0 and 2 share bucket 0; remove(0) has found node 1
\* behind node 2 in the chain and unlinked it, and key 2 is still found.
C31_Witness ==
    /\ iret.op = "remove" /\ iret.ok /\ iret.key = 0
    /\ iret.out = 1 /\ iret.value = 2
    /\ ~imap.im_linked[1] /\ imap.im_next[1] = NullPtr
    /\ imap.list[0] = 2 /\ imap.im_linked[2] /\ imap.im_key[2] = 2
    /\ IntrusiveMap_find(imap, 0) = NullPtr
    /\ IntrusiveMap_find(imap, 2) = 2
    /\ IntrusiveMap_size(imap) = 1
====
